---- MODULE Spec2Model ----
(***************************************************************************)
(* Timeseria: the typed series container (datastructures.py) and the       *)
(* parametric models built on it (models.py, models/reconstructors.py).    *)
(*                                                                         *)
(* Spec       the series container: one series object of a chosen class    *)
(*            and a stream of append calls, accepted or rejected.          *)
(* SpecModel  one model instance and one caller-owned input series: fit,   *)
(*            predict, apply, evaluate and save calls.                     *)
(* SpecScenario, SpecConcurrent, SpecValidate, SpecPhase, SpecSlot,        *)
(* SpecResample and SpecFit are introduced where they are defined.         *)
(***************************************************************************)
EXTENDS Integers, Sequences, FiniteSets, TLC

VARIABLES serie, outcome, model, disk, input, heap, result

vars == <<serie, outcome, model, disk, input, heap, result>>

-----------------------------------------------------------------------------
(* Bounds *)

MaxLen == 3

-----------------------------------------------------------------------------
(* Values *)

\* The inverse of the relative tolerance of is_close (1e-9).
RelTolInv == 1000000000

\* A large float, where the relative tolerance of is_close spans one unit.
Big == RelTolInv

Abs(x) == IF x < 0 THEN -x ELSE x

Max(a, b) == IF a >= b THEN a ELSE b

\* utilities.is_close: equality of floats up to a relative tolerance of 1e-9.
is_close(a, b) == Abs(a - b) <= Max(Abs(a), Abs(b)) \div RelTolInv

Unset == [set |-> FALSE]

Some(v) == [set |-> TRUE, v |-> v]

-----------------------------------------------------------------------------
(* Elements: the Point and Slot class lattice, plus the plain numbers of    *)
(* the generic Serie.                                                       *)

PointTypes == {"Point", "TimePoint", "DataPoint", "DataTimePoint"}

SlotTypes == {"Slot", "TimeSlot", "DataSlot", "DataTimeSlot"}

NumberTypes == {"int", "IntegerNumber"}

\* The classes an instance of class c is an instance of (c and its bases).
Bases(c) ==
    CASE c = "Point"         -> {"Point"}
      [] c = "TimePoint"     -> {"TimePoint", "Point"}
      [] c = "DataPoint"     -> {"DataPoint", "Point"}
      [] c = "DataTimePoint" -> {"DataTimePoint", "DataPoint", "TimePoint", "Point"}
      [] c = "Slot"          -> {"Slot"}
      [] c = "TimeSlot"      -> {"TimeSlot", "Slot"}
      [] c = "DataSlot"      -> {"DataSlot", "Slot"}
      [] c = "DataTimeSlot"  -> {"DataTimeSlot", "DataSlot", "TimeSlot", "Slot"}
      [] c = "int"           -> {"int"}
      [] c = "IntegerNumber" -> {"IntegerNumber", "int"}

isinstance(e, c) == c \in Bases(e.type)

TZs == {"UTC", "Europe/Rome"}

UTC == "UTC"

\* The shape of a data payload: its Python type, its length, its keys.
NoData == [kind |-> "-", len |-> 0, keys |-> {}]

Datas ==
    { [kind |-> "list", len |-> 1, keys |-> {}],
      [kind |-> "list", len |-> 2, keys |-> {}],
      [kind |-> "dict", len |-> 1, keys |-> {"a"}],
      [kind |-> "dict", len |-> 1, keys |-> {"b"}] }

\* The span a slot was given at construction, if any: a number or a label.
NoSpan == [kind |-> "none", v |-> 0]

Spans == {NoSpan, [kind |-> "num", v |-> 1], [kind |-> "label", v |-> 0]}

Times == {0, 1, 2}

\* The [start, end] pairs of the slots on offer; a slot may run backwards
\* (Slot.__init__ only refuses start == end).
Bounds ==
    { <<0, 1>>, <<1, 2>>, <<2, 3>>, <<0, 2>>, <<2, 1>>, <<1, 0>>,
      <<0, Big>>, <<Big + 1, 2 * Big + 1>>, <<Big, 2 * Big + 1>> }

\* The pairs offered with a span given at construction.
SpanBounds == { <<0, 1>>, <<1, 2>>, <<1, 3>> }

\* The pairs offered with every time zone and every data shape.
CoreBounds == { <<0, 1>>, <<1, 2>>, <<2, 3>> }

Element(type, coord, t, start, end, tz, data, span) ==
    [type |-> type, coord |-> coord, t |-> t, start |-> start, end |-> end,
     tz |-> tz, data |-> data, span |-> span]

List1 == [kind |-> "list", len |-> 1, keys |-> {}]

Numbers ==
    { Element(c, "-", t, 0, 0, UTC, NoData, NoSpan) : c \in NumberTypes, t \in Times }

\* Point(**kwargs) and DataPoint(**kwargs) take any coordinate name, "t"
\* included; a TimePoint has the coordinate t and a time zone.
Points ==
    { Element("Point", c, t, 0, 0, UTC, NoData, NoSpan) : c \in {"x", "t"}, t \in Times }
    \cup { Element("TimePoint", "t", t, 0, 0, tz, NoData, NoSpan) : t \in Times, tz \in TZs }
    \cup { Element("DataPoint", "t", t, 0, 0, UTC, d, NoSpan) : t \in Times, d \in Datas }
    \cup { Element("DataTimePoint", "t", t, 0, 0, UTC, d, NoSpan) : t \in Times, d \in Datas }
    \cup { Element("DataTimePoint", "t", t, 0, 0, "Europe/Rome", List1, NoSpan) : t \in Times }

\* The slots of one class that Slot.__init__ / TimeSlot.__init__ construct
\* (start # end), with data d0 except where the data shape is varied.
SlotsOf(type, coord, zones, d0, datas) ==
    { Element(type, coord, 0, b[1], b[2], UTC, d0, NoSpan) : b \in Bounds }
    \cup { Element(type, coord, 0, b[1], b[2], UTC, d0, s) :
             b \in SpanBounds, s \in Spans \ {NoSpan} }
    \cup { Element(type, coord, 0, b[1], b[2], tz, d, NoSpan) :
             b \in CoreBounds, tz \in zones, d \in datas }

Slots ==
    SlotsOf("Slot", "x", {UTC}, NoData, {NoData})
    \cup SlotsOf("TimeSlot", "t", TZs, NoData, {NoData})
    \cup SlotsOf("DataSlot", "x", {UTC}, List1, Datas)
    \cup SlotsOf("DataTimeSlot", "t", TZs, List1, Datas)

Elements == Numbers \cup Points \cup Slots

\* One or two elements of every class, offered to every series.
Sample ==
    { e \in Elements :
        /\ e.span = NoSpan
        /\ e.data \in {NoData, List1}
        /\ IF e.type \in SlotTypes THEN <<e.start, e.end>> = <<1, 2>> ELSE e.t = 1 }

\* Attribute lookups that raise AttributeError when the attribute is missing.
has_t(e) == e.type \in PointTypes /\ e.coord = "t"

has_data(e) == e.type \in {"DataPoint", "DataTimePoint", "DataSlot", "DataTimeSlot"}

has_tz(e) == e.type \in {"TimePoint", "DataTimePoint", "TimeSlot", "DataTimeSlot"}

has_span(e) == e.type \in SlotTypes

has_succedes(e) == e.type \in SlotTypes \cup {"IntegerNumber"}

has_gt(e) == e.type \in {"TimePoint", "DataTimePoint"} \cup NumberTypes

\* Slot._compute_span: the mean per-coordinate delta (one coordinate here).
compute_span(e) == e.end - e.start

\* Slot.span: the span given at construction, else the computed one.
span(e) == IF e.span.kind # "none" THEN e.span ELSE [kind |-> "num", v |-> compute_span(e)]

-----------------------------------------------------------------------------
(* Series: a list plus the attributes the append methods keep on it.        *)

SerieClasses ==
    { "Serie", "PointSerie", "TimePointSerie", "DataPointSerie", "DataTimePointSerie",
      "SlotSerie", "TimeSlotSerie", "DataSlotSerie", "DataTimeSlotSerie" }

\* The class attribute __TYPE__ ("None" where the class fixes no type).
TYPE(cls) ==
    CASE cls = "Serie"              -> "None"
      [] cls = "PointSerie"         -> "Point"
      [] cls = "TimePointSerie"     -> "TimePoint"
      [] cls = "DataPointSerie"     -> "DataPoint"
      [] cls = "DataTimePointSerie" -> "DataTimePoint"
      [] cls = "SlotSerie"          -> "Slot"
      [] cls = "TimeSlotSerie"      -> "TimeSlot"
      [] cls = "DataSlotSerie"      -> "DataSlot"
      [] cls = "DataTimeSlotSerie"  -> "DataTimeSlot"

\* Serie.__init__ with no elements: no attribute is set yet.
NewSerie(cls) ==
    [cls |-> cls, items |-> <<>>, TYPE |-> TYPE(cls), prev_t |-> Unset,
     item_data_reference |-> Unset, slot_span |-> Unset, tz |-> Unset]

Last(s) == s.items[Len(s.items)]

Return(s) == [s |-> s, err |-> "none"]

Raise(s, e) == [s |-> s, err |-> e]

list_append(s, item) == Return([s EXCEPT !.items = Append(@, item)])

\* Variant: a slot succeeds any slot that ends at or before its start.
succedes_not_before(item, other) ==
    IF item.type = "IntegerNumber"
    THEN (IF other.t + 1 # item.t THEN "False" ELSE "True")
    ELSE IF other.coord # item.coord THEN "False"
    ELSE IF other.end <= item.start THEN "True" ELSE "False"

\* Slot.__succedes__ / TimeSlot.__succedes__ / the test suite's IntegerNumber.
succedes(item, other) ==
    CASE item.type = "IntegerNumber" ->
            IF other.t + 1 # item.t THEN "False" ELSE "True"
      [] item.type \in {"TimeSlot", "DataTimeSlot"} ->
            IF other.coord # "t" THEN "AttributeError"
            ELSE IF other.end # item.start
                 THEN (IF is_close(other.end, item.start) THEN "True" ELSE "False")
                 ELSE "True"
      [] item.type \in {"Slot", "DataSlot"} ->
            IF other.coord # item.coord \/ other.end # item.start THEN "False" ELSE "True"

\* item > other: TimePoint.__gt__, int.__gt__, or no __gt__ at all.
gt(item, other) ==
    CASE item.type \in NumberTypes ->
            IF item.t > other.t THEN "True" ELSE "False"
      [] item.type \in {"TimePoint", "DataTimePoint"} ->
            IF ~has_t(other) THEN "AttributeError"
            ELSE IF item.t > other.t THEN "True" ELSE "False"
      [] OTHER -> "TypeError"

\* The "except AttributeError" arm of Serie.append: compare with >.
in_order(s, item) ==
    LET r == gt(item, Last(s)) IN
    CASE r = "True"  -> list_append(s, item)
      [] r = "False" -> Raise(s, "ValueError")
      [] OTHER       -> Raise(s, r)

Serie_append(s, item) ==
    LET s1 == IF s.TYPE = "None" THEN [s EXCEPT !.TYPE = item.type] ELSE s IN
    IF ~isinstance(item, s1.TYPE) THEN Raise(s1, "TypeError")
    ELSE IF s1.items = <<>> THEN list_append(s1, item)
    ELSE IF has_succedes(item)
         THEN LET r == succedes(item, Last(s1)) IN
              CASE r = "True"  -> list_append(s1, item)
                [] r = "False" -> Raise(s1, "ValueError")
                [] OTHER       -> in_order(s1, item)
         ELSE in_order(s1, item)

\* Variant: records prev_t without comparing and appends to the list directly.
TimePointSerie_append_unchecked(s, item) ==
    IF ~has_t(item) THEN Raise(s, "AttributeError")
    ELSE list_append([s EXCEPT !.prev_t = Some(item.t)], item)

TimePointSerie_append(s, item) ==
    IF ~has_t(item) THEN Raise(s, "AttributeError")
    ELSE IF ~s.prev_t.set THEN Serie_append([s EXCEPT !.prev_t = Some(item.t)], item)
    ELSE IF item.t < s.prev_t.v THEN Raise(s, "ValueError")
    ELSE IF item.t = s.prev_t.v THEN Raise(s, "ValueError")
    ELSE Serie_append([s EXCEPT !.prev_t = Some(item.t)], item)

\* Variant: compares the kind and the length, never the keys.
data_check_no_keys(reference, data) ==
    IF reference.kind # data.kind THEN "TypeError"
    ELSE IF reference.kind = "list" /\ reference.len # data.len THEN "ValueError"
    ELSE "none"

\* The data check shared, line for line, by DataPointSerie.append and
\* DataSlotSerie.append: "none", or the error raised.
data_check(reference, data) ==
    IF reference.kind # data.kind THEN "TypeError"
    ELSE IF reference.kind = "list" /\ reference.len # data.len THEN "ValueError"
    ELSE IF reference.kind = "dict" /\ reference.keys # data.keys THEN "ValueError"
    ELSE "none"

\* super(DataPointSerie, self).append: the next append in the MRO of self.
DataPointSerie_super(s, item) ==
    IF s.cls = "DataTimePointSerie" THEN TimePointSerie_append(s, item)
    ELSE Serie_append(s, item)

DataPointSerie_append(s, item) ==
    IF ~has_data(item) THEN Raise(s, "AttributeError")
    ELSE IF ~s.item_data_reference.set
         THEN DataPointSerie_super([s EXCEPT !.item_data_reference = Some(item.data)], item)
    ELSE LET e == data_check(s.item_data_reference.v, item.data) IN
         IF e # "none" THEN Raise(s, e) ELSE DataPointSerie_super(s, item)

\* Variant: remembers the first span and never compares it.
SlotSerie_append_any_span(s, item) ==
    IF ~has_span(item) THEN Raise(s, "AttributeError")
    ELSE IF ~s.slot_span.set
         THEN Serie_append([s EXCEPT !.slot_span = Some(span(item))], item)
    ELSE Serie_append(s, item)

SlotSerie_append(s, item) ==
    IF ~has_span(item) THEN Raise(s, "AttributeError")
    ELSE IF ~s.slot_span.set
         THEN Serie_append([s EXCEPT !.slot_span = Some(span(item))], item)
    ELSE IF s.slot_span.v # span(item)
            /\ ~(s.slot_span.v.kind = "num" /\ span(item).kind = "num"
                 /\ is_close(s.slot_span.v.v, span(item).v))
         THEN Raise(s, "ValueError")
    ELSE Serie_append(s, item)

\* Variant: remembers the first time zone and never compares it.
TimeSlotSerie_append_any_tz(s, item) ==
    IF ~has_tz(item) THEN Raise(s, "AttributeError")
    ELSE IF ~s.tz.set THEN SlotSerie_append([s EXCEPT !.tz = Some(item.tz)], item)
    ELSE SlotSerie_append(s, item)

TimeSlotSerie_append(s, item) ==
    IF ~has_tz(item) THEN Raise(s, "AttributeError")
    ELSE IF ~s.tz.set THEN SlotSerie_append([s EXCEPT !.tz = Some(item.tz)], item)
    ELSE IF s.tz.v # item.tz THEN Raise(s, "ValueError")
    ELSE SlotSerie_append(s, item)

\* super(DataSlotSerie, self).append: the next append in the MRO of self.
DataSlotSerie_super(s, item) ==
    IF s.cls = "DataTimeSlotSerie" THEN TimeSlotSerie_append(s, item)
    ELSE SlotSerie_append(s, item)

DataSlotSerie_append(s, item) ==
    IF ~has_data(item) THEN Raise(s, "AttributeError")
    ELSE IF ~s.item_data_reference.set
         THEN DataSlotSerie_super([s EXCEPT !.item_data_reference = Some(item.data)], item)
    ELSE LET e == data_check(s.item_data_reference.v, item.data) IN
         IF e # "none" THEN Raise(s, e) ELSE DataSlotSerie_super(s, item)

\* self.append(item): the first append in the MRO of the class of self.
append(s, item) ==
    CASE s.cls \in {"Serie", "PointSerie"}                  -> Serie_append(s, item)
      [] s.cls = "TimePointSerie"                           -> TimePointSerie_append(s, item)
      [] s.cls \in {"DataPointSerie", "DataTimePointSerie"} -> DataPointSerie_append(s, item)
      [] s.cls = "SlotSerie"                                -> SlotSerie_append(s, item)
      [] s.cls = "TimeSlotSerie"                            -> TimeSlotSerie_append(s, item)
      [] s.cls \in {"DataSlotSerie", "DataTimeSlotSerie"}   -> DataSlotSerie_append(s, item)

\* The elements offered to a series: every element of the class the series
\* is for (for the generic Serie: the numbers), and the sample, which holds
\* elements of its subclasses and of the foreign classes.
Offer(cls) ==
    { e \in Elements :
        IF cls = "Serie" THEN e.type \in NumberTypes ELSE e.type = TYPE(cls) }
    \cup Sample

-----------------------------------------------------------------------------
(* The container's state machine *)

NoElement == Element("-", "-", 0, 0, 0, UTC, NoData, NoSpan)

InitSerie ==
    /\ \E cls \in SerieClasses : serie = NewSerie(cls)
    /\ outcome = [op |-> "init", item |-> NoElement, err |-> "none"]

\* serie.append(item), accepted or rejected.
SerieAppend ==
    /\ Len(serie.items) < MaxLen
    /\ \E item \in Offer(serie.cls) :
          LET r == append(serie, item) IN
          /\ serie' = r.s
          /\ outcome' = [op |-> "append", item |-> item, err |-> r.err]

\* No model exists in this specification.
NoModel == model = "-" /\ disk = "-" /\ input = "-" /\ heap = "-" /\ result = "-"

Init == InitSerie /\ NoModel

Next ==
    \/ SerieAppend /\ UNCHANGED <<model, disk, input, heap, result>>

Spec == Init /\ [][Next]_vars

-----------------------------------------------------------------------------
(* Properties of the series container (specification Spec) *)

TimePointSeries == {"TimePointSerie", "DataTimePointSerie"}

SlotSeries == {"SlotSerie", "TimeSlotSerie", "DataSlotSerie", "DataTimeSlotSerie"}

TimeSlotSeries == {"TimeSlotSerie", "DataTimeSlotSerie"}

DataSeries == {"DataPointSerie", "DataTimePointSerie", "DataSlotSerie", "DataTimeSlotSerie"}

\* The step is an append call of outcome'.item on a series holding elements.
AppendedTo(classes) ==
    /\ outcome'.op = "append"
    /\ serie.cls \in classes
    /\ serie.items # <<>>

Rejected == outcome'.err # "none" /\ serie'.items = serie.items

RejectedWith(e) == outcome'.err = e /\ serie'.items = serie.items

\* The item is of the series type, with data of the series kind and the
\* coordinate of the stored elements: its position alone can refuse it.
Fits(s, item) ==
    /\ isinstance(item, s.TYPE)
    /\ item.coord = Last(s).coord
    /\ s.cls \in DataSeries => item.data.kind = s.items[1].data.kind

\* Two spans are the same: equal, or two numbers within tolerance.
same_span(a, b) == a = b \/ (a.kind = "num" /\ b.kind = "num" /\ is_close(a.v, b.v))

C1_Increasing ==
    serie.cls \in TimePointSeries =>
        \A i \in 2..Len(serie.items) : serie.items[i].t > serie.items[i - 1].t

C1_Refused ==
    AppendedTo(TimePointSeries) /\ has_t(outcome'.item) /\ outcome'.item.t <= Last(serie).t
        => Rejected

\* C1: in a TimePointSerie or DataTimePointSerie the timestamps of the stored
\* elements are strictly increasing after any sequence of appends, accepted
\* or rejected, and an append whose t is lower than or equal to the t of the
\* last stored element raises an error and adds nothing.
C1_StrictSuccession == [](C1_Increasing) /\ [][C1_Refused]_vars

\* A time point series of two points has just refused a point that is not
\* after its last one.
C1_Witness ==
    /\ serie.cls \in TimePointSeries
    /\ Len(serie.items) >= 2
    /\ outcome.err = "ValueError"
    /\ has_t(outcome.item)
    /\ outcome.item.t <= Last(serie).t

\* C2: all stored elements have exactly the type T fixed by the series class,
\* or by the first appended element when the class fixes none (an element of
\* a subclass of T is never stored).
C2_ExactType ==
    \A i \in 1..Len(serie.items) :
        serie.items[i].type =
            (IF TYPE(serie.cls) = "None" THEN serie.items[1].type ELSE TYPE(serie.cls))

C3_SameShape ==
    serie.cls \in DataSeries =>
        \A i \in 1..Len(serie.items) : serie.items[i].data = serie.items[1].data

C3_Refused ==
    AppendedTo(DataSeries) /\ has_data(outcome'.item) =>
        LET first == serie.items[1].data
            data  == outcome'.item.data
        IN  /\ data.kind # first.kind => RejectedWith("TypeError")
            /\ data.kind = first.kind /\ data # first => RejectedWith("ValueError")

\* C3: in a data series, of points or of slots, every element's data has the
\* shape of the first element's data (same kind, same length for vectors,
\* same key set for mappings); an append whose data is of a different kind
\* raises TypeError, one with a different length or key set raises
\* ValueError, and neither adds an element.
C3_DataShape == [](C3_SameShape) /\ [][C3_Refused]_vars

\* A data series of two elements has just refused, with ValueError, data of
\* its own kind and of another length or key set.
C3_Witness ==
    /\ serie.cls \in DataSeries
    /\ Len(serie.items) >= 2
    /\ outcome.err = "ValueError"
    /\ has_data(outcome.item)
    /\ outcome.item.data.kind = serie.items[1].data.kind
    /\ outcome.item.data # serie.items[1].data

C4_Adjacent ==
    serie.cls \in SlotSeries =>
        \A i \in 2..Len(serie.items) :
            /\ serie.items[i].coord = serie.items[i - 1].coord
            /\ is_close(serie.items[i - 1].end, serie.items[i].start)

C4_Refused ==
    AppendedTo(SlotSeries) /\ outcome'.item.type \in SlotTypes
    /\ ~is_close(Last(serie).end, outcome'.item.start)
        => /\ Rejected
           /\ Fits(serie, outcome'.item) => RejectedWith("ValueError")

\* C4: in a slot series each slot starts where the previous slot ends, within
\* the floating-point tolerance; appending a slot that does not start where
\* the last stored slot ends (it repeats it, overlaps it, precedes it or
\* leaves a gap) adds nothing and raises an error, which is ValueError when
\* the slot is of the series type and data kind.
C4_SlotSuccession == [](C4_Adjacent) /\ [][C4_Refused]_vars

\* A slot series holds a slot accepted within tolerance (it starts next to,
\* not at, the end of the previous one) and has just refused, with
\* ValueError, a slot that is not adjacent to its last one.
C4_Witness ==
    /\ serie.cls \in SlotSeries
    /\ Len(serie.items) >= 2
    /\ serie.items[2].start # serie.items[1].end
    /\ outcome.err = "ValueError"
    /\ outcome.item.type \in SlotTypes
    /\ Fits(serie, outcome.item)
    /\ ~is_close(Last(serie).end, outcome.item.start)

\* C5 as stated: the span of every stored slot, taken as end minus start,
\* equals the span of the first slot within tolerance.
C5_EndMinusStart ==
    serie.cls \in SlotSeries =>
        \A i \in 1..Len(serie.items) :
            is_close(compute_span(serie.items[i]), compute_span(serie.items[1]))

C5_SameSpan ==
    serie.cls \in SlotSeries =>
        \A i \in 1..Len(serie.items) : same_span(span(serie.items[i]), span(serie.items[1]))

C5_Refused ==
    AppendedTo(SlotSeries) /\ outcome'.item.type \in SlotTypes
    /\ ~same_span(span(outcome'.item), span(serie.items[1]))
        => /\ Rejected
           /\ Fits(serie, outcome'.item) => RejectedWith("ValueError")

\* C5, amended: the span of every stored slot, which is the span given at
\* its construction when one was given and end minus start otherwise, equals
\* the span of the first slot (within tolerance when both are numbers); an
\* append of a slot with a different span adds nothing and raises an error,
\* which is ValueError when the slot is of the series type and data kind.
C5_SpanUniformity == [](C5_SameSpan) /\ [][C5_Refused]_vars

\* A slot series holds a slot whose given span is not its end minus start,
\* and has just refused, with ValueError, a slot of another span.
C5_Witness ==
    /\ serie.cls \in SlotSeries
    /\ Len(serie.items) >= 2
    /\ \E i \in 1..Len(serie.items) :
          /\ serie.items[i].span.kind = "num"
          /\ serie.items[i].span.v # compute_span(serie.items[i])
    /\ outcome.err = "ValueError"
    /\ outcome.item.type \in SlotTypes
    /\ Fits(serie, outcome.item)
    /\ ~same_span(span(outcome.item), span(serie.items[1]))

\* C6 as stated: in every time series, of points or of slots, all stored
\* elements have the timezone of the first one.
C6_OneTimezone ==
    serie.cls \in TimePointSeries \cup TimeSlotSeries =>
        \A i \in 1..Len(serie.items) : serie.items[i].tz = serie.items[1].tz

C6_SlotsShareTz ==
    serie.cls \in TimeSlotSeries /\ serie.items # <<>> =>
        /\ serie.tz = Some(serie.items[1].tz)
        /\ \A i \in 1..Len(serie.items) : serie.items[i].tz = serie.tz.v

C6_Refused ==
    AppendedTo(TimeSlotSeries) /\ has_tz(outcome'.item)
    /\ outcome'.item.tz # serie.items[1].tz
        => Rejected

\* C6, amended: for every time series of slots, the timezone of the first
\* appended slot is the timezone of the series, and appending an element
\* with a different timezone fails and adds nothing, so that all stored
\* slots share one timezone in every reachable state.
C6_SlotTimezone == [](C6_SlotsShareTz) /\ [][C6_Refused]_vars

\* A time slot series of two slots has just refused a slot of another
\* timezone that does start where its last slot ends.
C6_Witness ==
    /\ serie.cls \in TimeSlotSeries
    /\ Len(serie.items) >= 2
    /\ outcome.err = "ValueError"
    /\ outcome.item.type \in {"TimeSlot", "DataTimeSlot"}
    /\ outcome.item.tz # serie.items[1].tz
    /\ outcome.item.start = Last(serie).end

-----------------------------------------------------------------------------
(* Numbers: data values are exact rationals n/d (d > 0, lowest terms);      *)
(* timestamps and resolutions are whole numbers of seconds.                 *)

RECURSIVE GCD(_, _)
GCD(a, b) == IF b = 0 THEN a ELSE GCD(b, a % b)

Rat(n, d) ==
    LET sg == IF d < 0 THEN -1 ELSE 1
        g  == GCD(Abs(n), Abs(d))
    IN  [n |-> (sg * n) \div g, d |-> (sg * d) \div g]

Int2Rat(v) == [n |-> v, d |-> 1]

\* Python +, - and / on data values.
Plus(a, b) == Rat(a.n * b.d + b.n * a.d, a.d * b.d)

Minus(a, b) == Rat(a.n * b.d - b.n * a.d, a.d * b.d)

Over(a, k) == Rat(a.n, a.d * k)

\* int(a / b) for b > 0: truncation toward zero.
int_div(a, b) == IF a >= 0 THEN a \div b ELSE -((-a) \div b)

\* get_periodicity_index with dst_affected = False; periodicity > 0.
get_periodicity_index(time_point, resolution, periodicity) ==
    int_div(time_point.t, resolution) % periodicity

-----------------------------------------------------------------------------
(* Data time points and the series handed to the models.                    *)

\* Data losses are counted in tenths: 10 is a data_loss of 1.
FullLoss == 10

HalfLoss == 5

\* A DataTimePoint with one data value and its data_indexes.
DataTimePoint(t, v, loss) ==
    [t |-> t, data |-> Int2Rat(v), data_loss |-> loss, data_reconstructed |-> Unset]

\* A uniform univariate series: the points at t0, t0 + R, ... with the
\* given values, where a value of -1 stands for a lost point (data 0,
\* data_loss 1); the other points have no data_loss index.
Uniform(t0, R, values) ==
    [labels     |-> 1,
     resolution |-> R,
     items      |-> [i \in 1..Len(values) |->
                        IF values[i] = -1
                        THEN DataTimePoint(t0 + (i - 1) * R, 0, Some(FullLoss))
                        ELSE DataTimePoint(t0 + (i - 1) * R, values[i], Unset)]]

\* A series of measured points: data_loss 0, 0.5 and 0.
Measured ==
    [labels |-> 1, resolution |-> 1,
     items |-> << DataTimePoint(0, 1, Some(0)), DataTimePoint(1, 5, Some(HalfLoss)),
                  DataTimePoint(2, 3, Some(0)) >>]

\* A series with two data labels (every operation here refuses it before
\* reading any value, so one value per point is kept).
Multivariate == [Uniform(0, 1, <<1, 3>>) EXCEPT !.labels = 2]

\* The series the models are fitted on: empty, of one point, periodic, with
\* a phase that is always lost, and multivariate.
FitSeries ==
    { Uniform(0, 1, <<>>),
      Uniform(0, 1, <<1>>),
      Uniform(0, 1, <<1, 3, 1, 3>>),
      Uniform(0, 1, <<1, -1, 1, -1>>),
      Multivariate }

\* The series the models are called on: empty, periodic, with gaps in the
\* middle, at the start and at the end, with a phase that is always lost,
\* of another resolution, measured and multivariate.
Series ==
    { Uniform(0, 1, <<>>),
      Uniform(0, 1, <<1, 3, 1, 3>>),
      Uniform(0, 1, <<1, -1, 2>>),
      Uniform(0, 1, <<-1, 3, 1>>),
      Uniform(0, 1, <<1, 3, -1>>),
      Uniform(0, 1, <<1, -1, -1, 4>>),
      Uniform(0, 1, <<1, -1, 1, -1>>),
      Uniform(4, 2, <<2, 4, 2>>),
      Measured,
      Multivariate }

\* DataSlotSerie.data_keys, by the number of keys: None for an empty series.
data_keys(series) == IF series.items = <<>> THEN Unset ELSE Some(series.labels)

-----------------------------------------------------------------------------
(* Objects: the elements live in a store, a sequence indexed by identity;   *)
(* a series is the list of the identities of its elements.                  *)

\* The store holding the elements of the series passed by the caller.
Store(series) == [objs |-> series.items, arg |-> [i \in 1..Len(series.items) |-> i]]

\* series.duplicate(): a new series of copies of the elements.
duplicate(objs, ids) ==
    [objs |-> objs \o [i \in 1..Len(ids) |-> objs[ids[i]]],
     ids  |-> [i \in 1..Len(ids) |-> Len(objs) + i]]

\* series[j] with a Python index j: negative indexes count from the end.
InRange(ids, j) == -Len(ids) <= j /\ j < Len(ids)

At(ids, j) == IF j >= 0 THEN ids[j + 1] ELSE ids[Len(ids) + j + 1]

-----------------------------------------------------------------------------
(* Models: ParametricModel and its periodic-average subclasses.             *)

ModelClasses == {"PeriodicAverageForecaster", "PeriodicAverageReconstructor"}

\* The operations a class implements (_fit, _predict, _apply, _evaluate).
Implements(cls) ==
    IF cls = "PeriodicAverageForecaster"
    THEN {"fit", "predict", "apply", "evaluate"}
    ELSE IF cls = "PeriodicAverageAnomalyDetector" THEN {"fit", "apply"}
    ELSE {"fit", "apply", "evaluate"}

\* ParametricModel.__init__ without a path; offset_method, offsets,
\* forecaster and AE_threshold are attributes that do not exist yet.
NewModel(cls) ==
    [cls    |-> cls,
     fitted |-> FALSE,
     data   |-> [id |-> "id", periodicity |-> Unset, dst_affected |-> Unset,
                 window |-> Unset, averages |-> Unset, fitted_at |-> Unset],
     offset_method |-> Unset,
     offsets       |-> Unset,
     forecaster    |-> Unset,
     AE_threshold  |-> Unset]

RECURSIVE Sum(_)
Sum(items) == IF items = <<>> THEN Int2Rat(0) ELSE Plus(items[1].data, Sum(Tail(items)))

\* The averages map of the fit loops: sums[index] / totals[index] for every
\* periodicity index that received an item.
averages(items, resolution, periodicity) ==
    LET index(x) == get_periodicity_index(x, resolution, periodicity)
        SameIndex(p) == SelectSeq(items, LAMBDA x : index(x) = p)
    IN  [p \in {index(items[i]) : i \in 1..Len(items)} |->
            Over(Sum(SameIndex(p)), Len(SameIndex(p)))]

\* item_is_in_range(item, from_t, to_t) for a point: from from_t on and
\* before to_t, where either is given; with from_t after to_t, outside
\* the items from to_t on and before from_t.
item_is_in_range(item, from_t, to_t) ==
    IF from_t.set /\ to_t.set /\ from_t.v > to_t.v
    THEN item.t < to_t.v \/ item.t >= from_t.v
    ELSE (from_t.set => item.t >= from_t.v) /\ (to_t.set => item.t < to_t.v)

\* The items the loop of a _fit does not skip.
In_range(items, kwargs) ==
    SelectSeq(items, LAMBDA x : item_is_in_range(x, kwargs.from_t, kwargs.to_t))

\* PeriodicAverageForecaster._fit with periodicity given; window 0 is None.
\* With a periodicity of 0 the first periodicity index is a division by
\* zero, after periodicity, dst_affected and window were stored.
PeriodicAverageForecaster_fit(m, series, window, periodicity) ==
    IF ~data_keys(series).set THEN Raise(m, "TypeError")
    ELSE IF data_keys(series).v > 1 THEN Raise(m, "NotImplementedError")
    ELSE IF periodicity = 0 /\ series.items # <<>>
    THEN Raise([m EXCEPT
            !.data.periodicity  = Some(periodicity),
            !.data.dst_affected = Some(FALSE),
            !.data.window       = Some(IF window # 0 THEN window ELSE periodicity)],
            "ZeroDivisionError")
    ELSE Return([m EXCEPT
            !.data.periodicity  = Some(periodicity),
            !.data.dst_affected = Some(FALSE),
            !.data.window       = Some(IF window # 0 THEN window ELSE periodicity),
            !.data.averages     = Some(averages(series.items, series.resolution, periodicity))])

\* The items PeriodicAverageReconstructor._fit processes.
Fitted_on(items, data_loss_threshold) ==
    SelectSeq(items, LAMBDA x : ~x.data_loss.set \/ x.data_loss.v < data_loss_threshold)

\* PeriodicAverageReconstructor._fit with periodicity given. With a
\* periodicity of 0 the periodicity index of the first item that is
\* processed is a division by zero, after periodicity and dst_affected were
\* stored.
PeriodicAverageReconstructor_fit(m, series, data_loss_threshold, periodicity, offset_method) ==
    IF offset_method \notin {"average", "extremes"} THEN Raise(m, "Exception")
    ELSE LET m1 == [m EXCEPT !.offset_method = Some(offset_method)] IN
         IF ~data_keys(series).set THEN Raise(m1, "TypeError")
         ELSE IF data_keys(series).v > 1 THEN Raise(m1, "NotImplementedError")
         ELSE IF periodicity = 0 /\ Fitted_on(series.items, data_loss_threshold) # <<>>
         THEN Raise([m1 EXCEPT !.data.periodicity  = Some(periodicity),
                               !.data.dst_affected = Some(FALSE)],
                    "ZeroDivisionError")
         ELSE Return([m1 EXCEPT
                 !.data.periodicity  = Some(periodicity),
                 !.data.dst_affected = Some(FALSE),
                 !.data.averages     =
                     Some(averages(Fitted_on(series.items, data_loss_threshold),
                                   series.resolution, periodicity))])

RECURSIVE PeriodicAverageAnomalyDetector_fit(_, _, _)
\* self._fit(data, **kwargs) of the class of self. The loop of a _fit skips
\* the items out of range, and every range given here leaves an item to it.
fit_of(m, series, kwargs) ==
    IF m.cls = "PeriodicAverageForecaster"
    THEN PeriodicAverageForecaster_fit(m, [series EXCEPT !.items = In_range(@, kwargs)],
                                       kwargs.window, kwargs.periodicity)
    ELSE IF m.cls = "PeriodicAverageAnomalyDetector"
    THEN PeriodicAverageAnomalyDetector_fit(m, series, kwargs)
    ELSE PeriodicAverageReconstructor_fit(m, [series EXCEPT !.items = In_range(@, kwargs)],
                                          kwargs.data_loss_threshold,
                                          kwargs.periodicity, kwargs.offset_method)

\* Variant: marks the model fitted before running _fit.
ParametricModel_fit_eager(m, series, kwargs) ==
    LET r == fit_of([m EXCEPT !.fitted = TRUE], series, kwargs) IN
    IF r.err # "none" THEN r
    ELSE Return([r.s EXCEPT !.data.fitted_at = Some("now")])

\* ParametricModel.fit
ParametricModel_fit(m, series, kwargs) ==
    LET r == fit_of(m, series, kwargs) IN
    IF r.err # "none" THEN r
    ELSE Return([r.s EXCEPT !.data.fitted_at = Some("now"), !.fitted = TRUE])

\* The keyword arguments of the calls, at their defaults (the defaults of
\* _apply for data_loss_threshold; 0 and "-" where a call takes none).
Kwargs ==
    [window |-> 0, periodicity |-> 0, offset_method |-> "-", n |-> 0,
     data_loss_threshold |-> FullLoss, remove_data_loss |-> FALSE, inplace |-> FALSE,
     from_t |-> Unset, to_t |-> Unset, rounds |-> 10]

Periodicities == {1, 2}

Windows == {0, 2}

\* The keyword arguments given to fit: a window of 0 is None, and the third
\* offset method is one the reconstructor does not know.
FitArgs(cls) ==
    IF cls = "PeriodicAverageForecaster"
    THEN { [Kwargs EXCEPT !.window = w, !.periodicity = p] :
             w \in Windows, p \in Periodicities }
    ELSE { [Kwargs EXCEPT !.periodicity = p, !.offset_method = o,
                          !.data_loss_threshold = HalfLoss] :
             p \in Periodicities, o \in {"average", "extremes", "median"} }

-----------------------------------------------------------------------------
(* Calls on a model: the outcome of a call is the model, the store and the  *)
(* list of the caller's series as the call leaves them, the value returned  *)
(* and the exception raised.                                                *)

None == [kind |-> "None", obj |-> "-", ids |-> <<>>]

\* A returned series: the caller's own series object ("arg") or a new one.
ASeries(obj, ids) == [kind |-> "series", obj |-> obj, ids |-> ids]

Scores == [kind |-> "scores", obj |-> "-", ids |-> <<>>]

Path == [kind |-> "path", obj |-> "-", ids |-> <<>>]

Done(m, objs, arg, ret) == [m |-> m, objs |-> objs, arg |-> arg, ret |-> ret, err |-> "none"]

Fail(m, objs, arg, e) == [m |-> m, objs |-> objs, arg |-> arg, ret |-> None, err |-> e]

\* The one data label of a univariate series.
Label == "value"

RECURSIVE Diffs(_, _, _, _, _, _)
\* diffs += (real_value - averages[index]) over the Python indexes js.
Diffs(objs, ids, js, resolution, periodicity, avg) ==
    IF js = <<>> THEN Int2Rat(0)
    ELSE LET x == objs[At(ids, js[1])] IN
         Plus(Minus(x.data, avg[get_periodicity_index(x, resolution, periodicity)]),
              Diffs(objs, ids, Tail(js), resolution, periodicity, avg))

\* The periodicity index of series[j] has an average.
Known(m, objs, ids, resolution, j) ==
    get_periodicity_index(objs[At(ids, j)], resolution, m.data.periodicity.v)
        \in DOMAIN m.data.averages.v

\* PeriodicAverageForecaster._forecast for a series of points (window_start
\* None, raw False): the model, the forecasted item and the error raised.
PeriodicAverageForecaster_forecast(m, objs, ids, resolution, first_call) ==
    LET W    == m.data.window.v
        P    == m.data.periodicity.v
        avg  == m.data.averages.v
        m0   == IF m.offsets.set THEN m ELSE [m EXCEPT !.offsets = Some(<<>>)]
        js   == [j \in 1..W |-> -(W - (j - 1))]
        compute == Label \notin DOMAIN m0.offsets.v \/ first_call
        m1   == IF compute
                THEN [m0 EXCEPT !.offsets =
                        Some(Label :> Over(Diffs(objs, ids, js, resolution, P, avg), W - 1))]
                ELSE m0
        t    == objs[At(ids, -1)].t + resolution
        p    == get_periodicity_index([t |-> t], resolution, P)
        NoItem == [t |-> 0, data |-> Int2Rat(0), data_loss |-> Unset, data_reconstructed |-> Unset]
    IN  IF compute /\ \E j \in 1..W : ~Known(m, objs, ids, resolution, js[j])
        THEN [m |-> m0, err |-> "KeyError", item |-> NoItem]
        ELSE IF compute /\ W = 0
        THEN [m |-> m0, err |-> "UnboundLocalError", item |-> NoItem]
        ELSE IF compute /\ W = 1
        THEN [m |-> m0, err |-> "ZeroDivisionError", item |-> NoItem]
        ELSE IF p \notin DOMAIN avg
        THEN [m |-> m1, err |-> "KeyError", item |-> NoItem]
        ELSE [m |-> m1, err |-> "none",
              item |-> [t |-> t, data |-> Plus(avg[p], m1.offsets.v[Label]),
                        data_loss |-> Unset, data_reconstructed |-> Unset]]

RECURSIVE Forecaster_steps(_, _, _, _, _, _)
\* One pass of the "for _ in range(n)" loop of Forecaster._apply, f being
\* what self._forecast did: the item is appended, or the error leaves the loop.
Forecaster_step(f, objs, ids, resolution, k) ==
    IF f.err # "none" THEN [m |-> f.m, objs |-> objs, ids |-> ids, err |-> f.err]
    ELSE Forecaster_steps(f.m, Append(objs, f.item), Append(ids, Len(objs) + 1),
                          resolution, k - 1, FALSE)

\* The "for _ in range(n)" loop of Forecaster._apply, k steps to go.
Forecaster_steps(m, objs, ids, resolution, k, first_call) ==
    IF k = 0 THEN [m |-> m, objs |-> objs, ids |-> ids, err |-> "none"]
    ELSE Forecaster_step(
             PeriodicAverageForecaster_forecast(m, objs, ids, resolution, first_call),
             objs, ids, resolution, k)

\* What Forecaster._apply leaves and returns, r being the outcome of its
\* loop: inplace, the caller's series holds whatever was appended and None is
\* returned; otherwise the caller's series is as it was and the duplicate
\* is returned.
Forecaster_applied(r, objs, arg, inplace) ==
    IF r.err # "none"
    THEN (IF inplace THEN Fail(r.m, r.objs, r.ids, r.err)
          ELSE Fail(r.m, objs, arg, r.err))
    ELSE IF inplace THEN Done(r.m, r.objs, r.ids, None)
    ELSE Done(r.m, r.objs, arg, ASeries("new", r.ids))

\* Forecaster._apply (the mark it leaves on the series is not kept).
Forecaster_apply(m, objs, arg, series, n, inplace) ==
    IF ~data_keys(series).set THEN Fail(m, objs, arg, "TypeError")
    ELSE IF data_keys(series).v > 1 THEN Fail(m, objs, arg, "NotImplementedError")
    ELSE IF Len(arg) < m.data.window.v THEN Fail(m, objs, arg, "ValueError")
    ELSE LET forecast_timeseries ==
                 IF inplace THEN [objs |-> objs, ids |-> arg] ELSE duplicate(objs, arg)
         IN  Forecaster_applied(
                 Forecaster_steps(m, forecast_timeseries.objs, forecast_timeseries.ids,
                                  series.resolution, n, TRUE),
                 objs, arg, inplace)

\* The series Forecaster._predict returns, r being the outcome of apply:
\* a new series of the items after the first len(timeseries) ones.
Forecaster_predicted(r, objs, arg) ==
    IF r.err # "none" THEN Fail(r.m, objs, arg, r.err)
    ELSE LET new == SubSeq(r.ret.ids, Len(arg) + 1, Len(r.ret.ids)) IN
         Done(r.m, objs \o [i \in 1..Len(new) |-> r.objs[new[i]]], arg,
              ASeries("new", [i \in 1..Len(new) |-> Len(objs) + i]))

\* Forecaster._predict: apply on a duplicate, then the forecasted items.
Forecaster_predict(m, objs, arg, series, n) ==
    Forecaster_predicted(Forecaster_apply(m, objs, arg, series, n, FALSE), objs, arg)

RECURSIVE Forecaster_samples(_, _, _, _, _, _, _)
\* The sample at index i of Forecaster._evaluate, r being the outcome of
\* the apply on its window: an error leaves the loop, otherwise the sample
\* counts and the loop goes on.
Forecaster_sample(r, objs, arg, series, kw, steps_round, i) ==
    IF r.err # "none" THEN [m |-> r.m, err |-> r.err, processed |-> 0]
    ELSE [Forecaster_samples(r.m, objs, arg, series, kw, steps_round, i + 1)
             EXCEPT !.processed = @ + 1]

\* The "for i in range(len(timeseries))" loop of Forecaster._evaluate from
\* index i on: the model, the error raised and the samples processed.
Forecaster_samples(m, objs, arg, series, kw, steps_round, i) ==
    LET W == m.data.window.v IN
    IF i >= Len(arg) THEN [m |-> m, err |-> "none", processed |-> 0]
    ELSE IF \/ ~item_is_in_range(objs[At(arg, i)], kw.from_t, kw.to_t)
            \/ i < W + steps_round \/ i > Len(arg) - steps_round
    THEN Forecaster_samples(m, objs, arg, series, kw, steps_round, i + 1)
    ELSE LET from == i - W - steps_round + 1
             to   == i - steps_round
         IN  Forecaster_sample(
                 Forecaster_apply(m, objs, SubSeq(arg, from, to),
                                  [series EXCEPT !.items = SubSeq(@, from, to)],
                                  steps_round, TRUE),
                 objs, arg, series, kw, steps_round, i)

RECURSIVE Forecaster_rounds(_, _, _, _, _, _)
\* One round of Forecaster._evaluate, r being the outcome of its loop over
\* the samples: a round without samples raises.
Forecaster_round(r, objs, arg, series, kw, steps) ==
    IF r.err # "none" THEN Fail(r.m, objs, arg, r.err)
    ELSE IF r.processed = 0 THEN Fail(r.m, objs, arg, "Exception")
    ELSE Forecaster_rounds(r.m, objs, arg, series, kw, Tail(steps))

\* The "for steps_round in steps" loop of Forecaster._evaluate.
Forecaster_rounds(m, objs, arg, series, kw, steps) ==
    IF steps = <<>> THEN Done(m, objs, arg, Scores)
    ELSE IF ~data_keys(series).set THEN Fail(m, objs, arg, "TypeError")
    ELSE Forecaster_round(Forecaster_samples(m, objs, arg, series, kw, steps[1], 0),
                          objs, arg, series, kw, steps)

\* Forecaster._evaluate with steps = 'auto' and the default metrics; the
\* scores themselves are not computed.
Forecaster_evaluate(m, objs, arg, series, kw) ==
    Forecaster_rounds(m, objs, arg, series, kw, <<1, m.data.periodicity.v>>)

-----------------------------------------------------------------------------
(* Reconstructors *)

RECURSIVE Fill_through(_, _, _, _, _, _, _)
\* Variant: the loop runs through to_index, one element past the gap.
Fill_through(m, objs, ids, resolution, j, to_index, offset) ==
    IF j > to_index \/ j >= Len(ids) THEN [objs |-> objs, err |-> "none"]
    ELSE IF ~Known(m, objs, ids, resolution, j) THEN [objs |-> objs, err |-> "KeyError"]
    ELSE LET id == At(ids, j)
             p  == get_periodicity_index(objs[id], resolution, m.data.periodicity.v)
         IN  Fill_through(m, [objs EXCEPT ![id].data = Plus(m.data.averages.v[p], offset),
                                          ![id].data_reconstructed = Some(1)],
                          ids, resolution, j + 1, to_index, offset)

RECURSIVE Fill(_, _, _, _, _, _, _)
\* The "Actually reconstruct" loop of _reconstruct from index j on.
Fill(m, objs, ids, resolution, j, to_index, offset) ==
    IF j >= to_index THEN [objs |-> objs, err |-> "none"]
    ELSE IF ~Known(m, objs, ids, resolution, j) THEN [objs |-> objs, err |-> "KeyError"]
    ELSE LET id == At(ids, j)
             p  == get_periodicity_index(objs[id], resolution, m.data.periodicity.v)
         IN  Fill(m, [objs EXCEPT ![id].data = Plus(m.data.averages.v[p], offset),
                                  ![id].data_reconstructed = Some(1)],
                  ids, resolution, j + 1, to_index, offset)

\* PeriodicAverageReconstructor._reconstruct on [from_index, to_index);
\* self.offset_method is an attribute that only _fit creates.
reconstruct(m, objs, ids, resolution, from_index, to_index) ==
    LET P   == m.data.periodicity.v
        avg == m.data.averages.v
        gap == [j \in 1..(to_index - from_index) |-> from_index + j - 1]
    IN  CASE ~m.offset_method.set -> [objs |-> objs, err |-> "AttributeError"]
          [] m.offset_method.v = "average" ->
                IF \E j \in 1..Len(gap) : ~Known(m, objs, ids, resolution, gap[j])
                THEN [objs |-> objs, err |-> "KeyError"]
                ELSE Fill(m, objs, ids, resolution, from_index, to_index,
                          Over(Diffs(objs, ids, gap, resolution, P, avg), to_index - from_index))
          [] m.offset_method.v = "extremes" ->
                IF ~Known(m, objs, ids, resolution, from_index - 1)
                THEN [objs |-> objs, err |-> "KeyError"]
                ELSE IF ~InRange(ids, to_index + 1)
                THEN Fill(m, objs, ids, resolution, from_index, to_index, Int2Rat(0))
                ELSE IF ~Known(m, objs, ids, resolution, to_index + 1)
                THEN [objs |-> objs, err |-> "KeyError"]
                ELSE Fill(m, objs, ids, resolution, from_index, to_index,
                          Over(Diffs(objs, ids, <<from_index - 1, to_index + 1>>,
                                     resolution, P, avg), 2))
          [] OTHER -> [objs |-> objs, err |-> "Exception"]

\* item.data_indexes.pop('data_loss', None) when remove_data_loss is set.
remove_data_loss(objs, id, kw) ==
    IF kw.remove_data_loss THEN [objs EXCEPT ![id].data_loss = Unset] ELSE objs

RECURSIVE Reconstructor_items(_, _, _, _, _, _, _)
\* An item below the threshold in the loop of Reconstructor._apply, r being
\* the outcome of reconstructing the gap it closes, if any: the item is
\* marked as not reconstructed and the loop goes on.
Reconstructor_item(r, m, ids, resolution, kw, i) ==
    IF r.err # "none" THEN r
    ELSE Reconstructor_items(
             m, remove_data_loss([r.objs EXCEPT ![At(ids, i)].data_reconstructed = Some(0)],
                                 At(ids, i), kw),
             ids, resolution, kw, i + 1, -1)

\* Variant: a gap left open at the end of the series is not reconstructed.
Reconstructor_items_closed(m, objs, ids, resolution, kw, i, gap_started) ==
    IF i >= Len(ids) THEN [objs |-> objs, err |-> "none"]
    ELSE IF objs[At(ids, i)].data_loss.set
            /\ objs[At(ids, i)].data_loss.v >= kw.data_loss_threshold
    THEN Reconstructor_items(m, remove_data_loss(objs, At(ids, i), kw), ids, resolution,
                             kw, i + 1, IF gap_started = -1 THEN i ELSE gap_started)
    ELSE Reconstructor_item(
             IF gap_started # -1
             THEN reconstruct(m, objs, ids, resolution, gap_started, i)
             ELSE [objs |-> objs, err |-> "none"],
             m, ids, resolution, kw, i)

\* The "for i, item in enumerate(series)" loop of Reconstructor._apply from
\* index i on, and the reconstruction of the gap left open at the end;
\* gap_started is -1 for None.
Reconstructor_items(m, objs, ids, resolution, kw, i, gap_started) ==
    IF i >= Len(ids)
    THEN (IF gap_started # -1
          THEN reconstruct(m, objs, ids, resolution, gap_started, i)
          ELSE [objs |-> objs, err |-> "none"])
    ELSE IF objs[At(ids, i)].data_loss.set
            /\ objs[At(ids, i)].data_loss.v >= kw.data_loss_threshold
    THEN Reconstructor_items(m, remove_data_loss(objs, At(ids, i), kw), ids, resolution,
                             kw, i + 1, IF gap_started = -1 THEN i ELSE gap_started)
    ELSE Reconstructor_item(
             IF gap_started # -1
             THEN reconstruct(m, objs, ids, resolution, gap_started, i)
             ELSE [objs |-> objs, err |-> "none"],
             m, ids, resolution, kw, i)

\* What Reconstructor._apply leaves and returns, r being the outcome of its
\* loop over the series of identities ids: inplace, the caller's elements
\* are the ones worked on and None is returned; otherwise the caller's
\* elements are kept and the series worked on is returned.
Reconstructor_applied(r, m, objs, arg, ids, inplace) ==
    IF r.err # "none"
    THEN (IF inplace THEN Fail(m, r.objs, arg, r.err) ELSE Fail(m, objs, arg, r.err))
    ELSE IF inplace THEN Done(m, r.objs, arg, None)
    ELSE Done(m, r.objs, arg, ASeries("new", ids))

\* Variant: works on the series it is given, whatever inplace says.
Reconstructor_apply_shared(m, objs, arg, series, kw) ==
    IF ~data_keys(series).set THEN Fail(m, objs, arg, "TypeError")
    ELSE IF data_keys(series).v > 1 THEN Fail(m, objs, arg, "NotImplementedError")
    ELSE Reconstructor_applied(
             Reconstructor_items(m, objs, arg, series.resolution, kw, 0, -1),
             m, objs, arg, arg, kw.inplace)

\* Reconstructor._apply
Reconstructor_apply(m, objs, arg, series, kw) ==
    IF ~data_keys(series).set THEN Fail(m, objs, arg, "TypeError")
    ELSE IF data_keys(series).v > 1 THEN Fail(m, objs, arg, "NotImplementedError")
    ELSE LET timeseries ==
                 IF kw.inplace THEN [objs |-> objs, ids |-> arg] ELSE duplicate(objs, arg)
         IN  Reconstructor_applied(
                 Reconstructor_items(m, timeseries.objs, timeseries.ids, series.resolution,
                                     kw, 0, -1),
                 m, objs, arg, timeseries.ids, kw.inplace)

\* The series_to_reconstruct of Reconstructor._evaluate for the sample at
\* index i: deep copies, lost, holding the mean of the neighbours' values.
Sample_items(objs, arg, i, steps_round) ==
    LET average_value ==
            Over(Plus(objs[At(arg, i - 1)].data, objs[At(arg, i + steps_round)].data), 2)
    IN  [j \in 1..steps_round |->
            [objs[At(arg, i + j - 1)] EXCEPT !.data_loss = Some(FullLoss),
                                             !.data = average_value]]

\* No item of series[i-1 .. i+steps_round] has a data loss at the threshold.
Good_area(objs, arg, i, steps_round) ==
    \A j \in (i - 1)..(i + steps_round) :
        LET x == objs[At(arg, j)] IN ~(x.data_loss.set /\ x.data_loss.v >= FullLoss)

RECURSIVE Reconstructor_samples(_, _, _, _, _, _, _)
\* The sample at index i of Reconstructor._evaluate, r being the outcome of
\* the apply on its series_to_reconstruct: an error leaves the loop,
\* otherwise the sample counts and the loop goes on.
Reconstructor_sample(r, m, objs, arg, series, kw, steps_round, i) ==
    IF r.err # "none" THEN [err |-> r.err, processed |-> 0]
    ELSE [Reconstructor_samples(m, objs, arg, series, kw, steps_round, i + 1)
             EXCEPT !.processed = @ + 1]

\* The "for i in range(len(series))" loop of Reconstructor._evaluate from
\* index i on: the error raised and the samples processed.
Reconstructor_samples(m, objs, arg, series, kw, steps_round, i) ==
    IF i >= Len(arg) THEN [err |-> "none", processed |-> 0]
    ELSE IF \/ ~item_is_in_range(objs[At(arg, i)], kw.from_t, kw.to_t)
            \/ i = 0 \/ i >= Len(arg) - steps_round \/ ~Good_area(objs, arg, i, steps_round)
    THEN Reconstructor_samples(m, objs, arg, series, kw, steps_round, i + 1)
    ELSE Reconstructor_sample(
             Reconstructor_apply(m, Sample_items(objs, arg, i, steps_round),
                                 [j \in 1..steps_round |-> j],
                                 [series EXCEPT !.items = Sample_items(objs, arg, i, steps_round)],
                                 [Kwargs EXCEPT !.inplace = TRUE]),
             m, objs, arg, series, kw, steps_round, i)

RECURSIVE Reconstructor_rounds(_, _, _, _, _, _)
\* One round of Reconstructor._evaluate, r being the outcome of its loop
\* over the samples: a round without samples raises.
Reconstructor_round(r, m, objs, arg, series, kw, steps) ==
    IF r.err # "none" THEN Fail(m, objs, arg, r.err)
    ELSE IF r.processed = 0 THEN Fail(m, objs, arg, "Exception")
    ELSE Reconstructor_rounds(m, objs, arg, series, kw, Tail(steps))

\* The "for steps_round in steps" loop of Reconstructor._evaluate.
Reconstructor_rounds(m, objs, arg, series, kw, steps) ==
    IF steps = <<>> THEN Done(m, objs, arg, Scores)
    ELSE Reconstructor_round(Reconstructor_samples(m, objs, arg, series, kw, steps[1], 0),
                             m, objs, arg, series, kw, steps)

\* Reconstructor._evaluate with steps = 'auto', no limit and the default
\* threshold and metrics; the scores themselves are not computed.
Reconstructor_evaluate(m, objs, arg, series, kw) ==
    IF ~data_keys(series).set THEN Fail(m, objs, arg, "TypeError")
    ELSE Reconstructor_rounds(m, objs, arg, series, kw, <<1, m.data.periodicity.v>>)

-----------------------------------------------------------------------------
(* Anomaly detectors *)

\* Python * on data values.
Mul(a, b) == Rat(a.n * b.n, a.d * b.d)

\* __get_actual_and_predicted for series[i]: the forecast that the
\* forecaster f makes from the window starting at i - window - 1
\* (_forecast with first_call = True and raw = True), and the forecaster as
\* the call leaves it.
predicted(f, objs, ids, resolution, i) ==
    LET W   == f.data.window.v
        P   == f.data.periodicity.v
        avg == f.data.averages.v
        f0  == IF f.offsets.set THEN f ELSE [f EXCEPT !.offsets = Some(<<>>)]
        js  == [j \in 1..W |-> (i - W - 1) + (j - 1)]
        offset == Over(Diffs(objs, ids, js, resolution, P, avg), W - 1)
        p   == get_periodicity_index([t |-> objs[At(ids, i - 1)].t + resolution],
                                     resolution, P)
    IN  IF \E j \in 1..W : ~Known(f, objs, ids, resolution, js[j])
        THEN [m |-> f0, err |-> "KeyError", v |-> Int2Rat(0)]
        ELSE IF W = 0 THEN [m |-> f0, err |-> "UnboundLocalError", v |-> Int2Rat(0)]
        ELSE IF W = 1 THEN [m |-> f0, err |-> "ZeroDivisionError", v |-> Int2Rat(0)]
        ELSE IF p \notin DOMAIN avg
        THEN [m |-> [f0 EXCEPT !.offsets = Some(Label :> offset)], err |-> "KeyError",
              v |-> Int2Rat(0)]
        ELSE [m |-> [f0 EXCEPT !.offsets = Some(Label :> offset)], err |-> "none",
              v |-> Plus(avg[p], offset)]

RECURSIVE AEs(_, _, _, _, _)
\* One pass of the loop below for an item after the window, r being what
\* __get_actual_and_predicted gave: AEs.append(abs(actual - predicted)), or
\* the error leaves the loop.
AE_of(r, objs, ids, resolution, i) ==
    IF r.err # "none" THEN [m |-> r.m, err |-> r.err, AEs |-> <<>>]
    ELSE [AEs(r.m, objs, ids, resolution, i + 1) EXCEPT !.AEs =
             <<[n |-> Abs(Minus(objs[At(ids, i)].data, r.v).n),
                d |-> Minus(objs[At(ids, i)].data, r.v).d]>> \o @]

\* The loop "for i, item in enumerate(timeseries)" of _fit and of _apply from
\* index i on: abs(actual - predicted) for every item after the first
\* window + 1 ones, the error raised, and the forecaster as the loop leaves it.
AEs(f, objs, ids, resolution, i) ==
    IF i >= Len(ids) THEN [m |-> f, err |-> "none", AEs |-> <<>>]
    ELSE IF i <= f.data.window.v THEN AEs(f, objs, ids, resolution, i + 1)
    ELSE AE_of(predicted(f, objs, ids, resolution, i), objs, ids, resolution, i)

\* stdev * stdevs of _fit, squared: norm.fit gives the mean of the AEs and
\* their standard deviation, the square root of the mean squared deviation.
AE_threshold(mean, values, stdevs) ==
    Mul(Over(Sum([k \in 1..Len(values) |->
                     [data |-> Mul(Minus(values[k], mean), Minus(values[k], mean))]]),
             Len(values)),
        Int2Rat(stdevs * stdevs))

\* PeriodicAverageAnomalyDetector._fit after forecaster.fit, r being the
\* outcome of its loop; self.AE_threshold is kept by its square.
Detector_fitted(r, m) ==
    IF r.err # "none" THEN Raise([m EXCEPT !.forecaster = Some(r.m)], r.err)
    ELSE Return([m EXCEPT
            !.forecaster   = Some(r.m),
            !.AE_threshold =
                Some(AE_threshold(
                         Over(Sum([k \in 1..Len(r.AEs) |-> [data |-> r.AEs[k]]]), Len(r.AEs)),
                         r.AEs, 3))])

\* PeriodicAverageAnomalyDetector._fit(timeseries, stdevs = 3, **kwargs)
PeriodicAverageAnomalyDetector_fit(m, series, kwargs) ==
    IF ~data_keys(series).set THEN Raise(m, "TypeError")
    ELSE IF data_keys(series).v > 1 THEN Raise(m, "NotImplementedError")
    ELSE \* forecaster.fit(timeseries, *args, **kwargs)
         LET forecaster == ParametricModel_fit(NewModel("PeriodicAverageForecaster"),
                                               series, kwargs)
         IN  IF forecaster.err # "none" THEN Raise(m, forecaster.err)
             ELSE Detector_fitted(AEs(forecaster.s, series.items, Store(series).arg,
                                      series.resolution, 0), m)

\* if AE > self.AE_threshold, both sides squared
anomaly(AE, T) == IF Mul(AE, AE).n * T.d > T.n * Mul(AE, AE).d THEN 1 ELSE 0

\* Variant: annotates the items of the series it is given.
Detector_applied_nocopy(r, m, objs, arg) ==
    IF r.err # "none" THEN Fail([m EXCEPT !.forecaster = Some(r.m)], objs, arg, r.err)
    ELSE Done([m EXCEPT !.forecaster = Some(r.m)],
              [x \in 1..Len(objs) |->
                  IF \E k \in 1..Len(r.AEs) : At(arg, m.forecaster.v.data.window.v + k) = x
                  THEN [anomaly |-> anomaly(r.AEs[CHOOSE k \in 1..Len(r.AEs) :
                                At(arg, m.forecaster.v.data.window.v + k) = x],
                            m.AE_threshold.v)] @@ objs[x]
                  ELSE objs[x]],
              arg,
              ASeries("new", [k \in 1..Len(r.AEs) |->
                                 At(arg, m.forecaster.v.data.window.v + k)]))

\* What PeriodicAverageAnomalyDetector._apply leaves and returns, r being the
\* outcome of its loop: a new series of deep copies of the items after the
\* first window + 1 ones, each with the key 'anomaly' added to its data.
Detector_applied(r, m, objs, arg) ==
    IF r.err # "none" THEN Fail([m EXCEPT !.forecaster = Some(r.m)], objs, arg, r.err)
    ELSE Done([m EXCEPT !.forecaster = Some(r.m)],
              objs \o [k \in 1..Len(r.AEs) |->
                         [anomaly |-> anomaly(r.AEs[k], m.AE_threshold.v)]
                         @@ objs[At(arg, m.forecaster.v.data.window.v + k)]],
              arg,
              ASeries("new", [k \in 1..Len(r.AEs) |-> Len(objs) + k]))

\* PeriodicAverageAnomalyDetector._apply with details and logs off
PeriodicAverageAnomalyDetector_apply(m, objs, arg, series, inplace) ==
    IF inplace THEN Fail(m, objs, arg, "Exception")
    ELSE IF ~data_keys(series).set THEN Fail(m, objs, arg, "TypeError")
    ELSE IF data_keys(series).v > 1 THEN Fail(m, objs, arg, "NotImplementedError")
    ELSE Detector_applied(AEs(m.forecaster.v, objs, arg, series.resolution, 0),
                          m, objs, arg)

-----------------------------------------------------------------------------
(* The public methods of ParametricModel *)

\* self._predict, self._apply or self._evaluate of the class of self.
method_of(m, op, objs, arg, series, kw) ==
    CASE op = "predict" -> Forecaster_predict(m, objs, arg, series, kw.n)
      [] op = "apply" /\ m.cls = "PeriodicAverageForecaster" ->
            Forecaster_apply(m, objs, arg, series, kw.n, kw.inplace)
      [] op = "apply" /\ m.cls = "PeriodicAverageReconstructor" ->
            Reconstructor_apply(m, objs, arg, series, kw)
      [] op = "apply" /\ m.cls = "PeriodicAverageAnomalyDetector" ->
            PeriodicAverageAnomalyDetector_apply(m, objs, arg, series, kw.inplace)
      [] op = "evaluate" /\ m.cls = "PeriodicAverageForecaster" ->
            Forecaster_evaluate(m, objs, arg, series, kw)
      [] op = "evaluate" /\ m.cls = "PeriodicAverageReconstructor" ->
            Reconstructor_evaluate(m, objs, arg, series, kw)

\* ParametricModel.predict, .apply and .evaluate on a series.
ParametricModel_call(m, op, objs, arg, series, kw) ==
    IF op \notin Implements(m.cls) THEN Fail(m, objs, arg, "NotImplementedError")
    ELSE IF ~m.fitted THEN Fail(m, objs, arg, "NotFittedError")
    ELSE method_of(m, op, objs, arg, series, kw)

\* ParametricModel.save to one path; the files written are not kept, the
\* model directory is.
ParametricModel_save(m, dirs) ==
    IF ~m.fitted THEN [dirs |-> dirs, err |-> "NotFittedError"]
    ELSE IF m.data.id \in dirs THEN [dirs |-> dirs, err |-> "FileExistsError"]
    ELSE [dirs |-> dirs \cup {m.data.id}, err |-> "none"]

-----------------------------------------------------------------------------
(* The state machine of one model and its callers: input is the series a    *)
(* call was given, as it was when the call was made; heap holds the         *)
(* elements, and the list of that series, as the call left them.            *)

MaxN == 2

NoSeries == Uniform(0, 1, <<>>)

\* The keyword arguments given to predict and to apply.
PredictArgs == { [Kwargs EXCEPT !.n = n] : n \in 1..MaxN }

ApplyArgs(cls) ==
    IF cls = "PeriodicAverageForecaster"
    THEN { [Kwargs EXCEPT !.n = n, !.inplace = b] : n \in 1..MaxN, b \in BOOLEAN }
    ELSE IF cls = "PeriodicAverageAnomalyDetector"
    THEN { [Kwargs EXCEPT !.inplace = b] : b \in BOOLEAN }
    ELSE { [Kwargs EXCEPT !.remove_data_loss = r, !.inplace = b] :
             r \in BOOLEAN, b \in BOOLEAN }
         \cup { [Kwargs EXCEPT !.data_loss_threshold = HalfLoss, !.inplace = b] :
                  b \in BOOLEAN }

NoSerie ==
    /\ serie = NewSerie("Serie")
    /\ outcome = [op |-> "init", item |-> NoElement, err |-> "none"]

InitModel ==
    /\ NoSerie
    /\ \E cls \in ModelClasses : model = NewModel(cls)
    /\ disk = {}
    /\ input = NoSeries
    /\ heap = Store(NoSeries)
    /\ result = [op |-> "init", err |-> "none", ret |-> None, kw |-> Kwargs]

\* model.fit(series, **kw)
Fit ==
    \E series \in FitSeries, kw \in FitArgs(model.cls) :
        \E r \in {ParametricModel_fit(model, series, kw)} :
        /\ model' = r.s
        /\ input' = series
        /\ heap' = Store(series)
        /\ result' = [op |-> "fit", err |-> r.err, ret |-> None, kw |-> kw]
        /\ UNCHANGED disk

\* model.predict, model.apply or model.evaluate (series, **kw)
Call(op, args) ==
    \E series \in Series, kw \in args :
        \E r \in {ParametricModel_call(model, op, Store(series).objs, Store(series).arg,
                                       series, kw)} :
            /\ model' = r.m
            /\ input' = series
            /\ heap' = [objs |-> r.objs, arg |-> r.arg]
            /\ result' = [op |-> op, err |-> r.err, ret |-> r.ret, kw |-> kw]
            /\ UNCHANGED disk

Predict == Call("predict", PredictArgs)

Apply == Call("apply", ApplyArgs(model.cls))

Evaluate == Call("evaluate", {Kwargs})

\* model.save(path)
Save ==
    LET r == ParametricModel_save(model, disk) IN
    /\ disk' = r.dirs
    /\ input' = NoSeries
    /\ heap' = Store(NoSeries)
    /\ result' = [op |-> "save", err |-> r.err,
                  ret |-> IF r.err = "none" THEN Path ELSE None, kw |-> Kwargs]
    /\ UNCHANGED model

NextModel ==
    \/ Fit /\ UNCHANGED <<serie, outcome>>
    \/ Predict /\ UNCHANGED <<serie, outcome>>
    \/ Apply /\ UNCHANGED <<serie, outcome>>
    \/ Evaluate /\ UNCHANGED <<serie, outcome>>
    \/ Save /\ UNCHANGED <<serie, outcome>>

SpecModel == InitModel /\ [][NextModel]_vars

-----------------------------------------------------------------------------
(* Properties of the models (specification SpecModel) *)

Forecaster == model.cls = "PeriodicAverageForecaster"

Reconstructor == model.cls = "PeriodicAverageReconstructor"

\* The step is a call of one of the given operations.
Calls(ops) == result'.op \in ops

C7_FailedFit == Calls({"fit"}) /\ result'.err # "none" => model'.fitted = model.fitted

C7_StaysFitted == model.fitted => model'.fitted

\* C7 as stated: for a parametric model that was not loaded from a path,
\* every predict, apply, evaluate or save call made before the first fit
\* that returns normally raises NotFittedError; a fit that raises does not
\* make the model fitted; once fitted, the model stays fitted.
C7_NotFittedBeforeFit ==
    [][/\ ~model.fitted /\ Calls({"predict", "apply", "evaluate", "save"})
            => result'.err = "NotFittedError"
       /\ C7_FailedFit
       /\ C7_StaysFitted]_vars

C7_UnfittedCall ==
    ~model.fitted /\ Calls({"predict", "apply", "evaluate", "save"}) =>
        IF result'.op = "save" \/ result'.op \in Implements(model.cls)
        THEN result'.err = "NotFittedError"
        ELSE result'.err = "NotImplementedError"

C7_FittedByFit ==
    ~model.fitted /\ model'.fitted => Calls({"fit"}) /\ result'.err = "none"

\* C7, amended: for a parametric model that was not loaded from a path, the
\* model becomes fitted only by a fit call that returns normally; before
\* that, every save call and every call of a predict, apply or evaluate that
\* the model's class implements raises NotFittedError, and a call of one it
\* does not implement raises NotImplementedError; a fit that raises does not
\* make the model fitted; once fitted, the model stays fitted.
C7_FitLifecycle ==
    [][C7_UnfittedCall /\ C7_FittedByFit /\ C7_FailedFit /\ C7_StaysFitted]_vars

\* After a fit that raised and left its mark on the model, an apply call
\* has raised NotFittedError.
C7_Witness ==
    /\ ~model.fitted
    /\ model.offset_method.set
    /\ result.op = "apply"
    /\ result.err = "NotFittedError"

\* The last call was an apply; the series it worked on is the caller's list
\* when inplace, else the series returned.
Applied == result.op = "apply" /\ result.err \notin {"NotFittedError", "NotImplementedError"}

Inplace == result.kw.inplace

Worked == IF Inplace THEN heap.arg ELSE result.ret.ids

C8_InputUntouched ==
    Applied /\ ~Inplace =>
        /\ heap.arg = Store(input).arg
        /\ \A i \in 1..Len(input.items) : heap.objs[i] = input.items[i]

C8_SeparateSeries ==
    Applied /\ ~Inplace /\ result.err = "none" =>
        /\ result.ret.kind = "series"
        /\ result.ret.obj # "arg"
        /\ \A i \in 1..Len(result.ret.ids) :
              \A j \in 1..Len(heap.arg) : result.ret.ids[i] # heap.arg[j]

C8_InputModified ==
    Applied /\ Inplace /\ result.err = "none" =>
        /\ result.ret = None
        /\ Len(heap.objs) = Len(heap.arg)
        /\ Forecaster => Len(heap.arg) = Len(input.items) + result.kw.n
        /\ Reconstructor =>
              \A i \in 1..Len(heap.arg) : heap.objs[heap.arg[i]].data_reconstructed.set

\* C8: Reconstructor.apply and Forecaster.apply called with inplace=false
\* leave the input series and each of its elements unchanged (data values,
\* data loss, reconstructed flag, length) and, when they return, return a
\* separate series that shares no element with the input; called with
\* inplace=true they return nothing and every element they worked on or
\* created is an element of the input series itself.
C8_Inplace == C8_InputUntouched /\ C8_SeparateSeries /\ C8_InputModified

\* A reconstructor applied with inplace=false has returned a series whose
\* elements differ from the input's, which are as they were.
C8_Witness ==
    /\ Applied /\ Reconstructor /\ ~Inplace /\ result.err = "none"
    /\ \E i \in 1..Len(input.items) :
          /\ heap.objs[result.ret.ids[i]].data # input.items[i].data
          /\ heap.objs[heap.arg[i]] = input.items[i]

\* Element i of the input is in a gap: its data loss is at the threshold.
Gap(i) ==
    /\ input.items[i].data_loss.set
    /\ input.items[i].data_loss.v >= result.kw.data_loss_threshold

\* C9 as stated: applying a reconstructor never changes the number of
\* elements and modifies only the elements inside a reconstructed gap; every
\* element outside the gaps is left exactly as it was.
C9_OutsideUntouched ==
    Applied /\ Reconstructor /\ result.err = "none" =>
        /\ Len(Worked) = Len(input.items)
        /\ \A i \in 1..Len(input.items) :
              ~Gap(i) => heap.objs[Worked[i]] = input.items[i]

C9_SameLength ==
    Applied /\ Reconstructor =>
        /\ Len(heap.arg) = Len(input.items)
        /\ result.err = "none" => Len(Worked) = Len(input.items)

C9_OutsideKept ==
    Applied /\ Reconstructor /\ (Inplace \/ result.err = "none") =>
        \A i \in 1..Len(input.items) :
            ~Gap(i) =>
                LET x == heap.objs[Worked[i]] IN
                /\ x.t = input.items[i].t
                /\ x.data = input.items[i].data
                /\ result.err = "none" =>
                      /\ x.data_reconstructed = Some(0)
                      /\ x.data_loss = IF result.kw.remove_data_loss THEN Unset
                                       ELSE input.items[i].data_loss

\* C9, amended: applying a reconstructor to a series never changes the
\* number of elements of the series and changes the data of no element
\* outside the gaps; every element outside the gaps keeps its timestamp and
\* its data, and when apply returns it is marked data_reconstructed = 0 and
\* has lost its data_loss index if remove_data_loss was set.
C9_GapsOnly == C9_SameLength /\ C9_OutsideKept

\* A reconstructor has filled a gap with a new value next to an element
\* outside the gap, which is now marked data_reconstructed = 0.
C9_Witness ==
    /\ Applied /\ Reconstructor /\ result.err = "none"
    /\ \E i \in 1..Len(input.items) :
          /\ Gap(i)
          /\ heap.objs[Worked[i]].data # input.items[i].data
    /\ \E i \in 1..Len(input.items) :
          /\ ~Gap(i)
          /\ heap.objs[Worked[i]] # input.items[i]

\* The n elements from position k + 1 on are on the grid after t_last.
OnGrid(ids, k, n) ==
    /\ Len(ids) = k + n
    /\ \A i \in 1..n :
          heap.objs[ids[k + i]].t =
              input.items[Len(input.items)].t + i * input.resolution

\* C10: for a fitted PeriodicAverageForecaster and a uniform series S of
\* resolution R holding at least window elements, apply(S, n) yields the
\* elements of S followed by exactly n new elements at t_last + R, ...,
\* t_last + nR, and predict(S, n) returns exactly those n new elements.
C10_GridExtension ==
    /\ Forecaster /\ model.fitted /\ result.op \in {"apply", "predict"}
    /\ input.labels = 1
    /\ Len(input.items) >= model.data.window.v
    => /\ result.err = "none"
       /\ result.op = "apply" =>
             /\ OnGrid(Worked, Len(input.items), result.kw.n)
             /\ \A i \in 1..Len(input.items) : heap.objs[Worked[i]] = input.items[i]
       /\ result.op = "predict" => OnGrid(result.ret.ids, 0, result.kw.n)

-----------------------------------------------------------------------------
(* The periodic scenario: a model fitted on the series data[i] = i mod 4 of  *)
(* resolution 1 s, applied to that series with a run of lost elements,      *)
(* saved and loaded again (specification SpecScenario). Here disk maps each *)
(* model directory to the data.json it holds.                               *)

MaxGap == 3

\* The series data[i] = i mod 4 with t = i.
Periodic == Uniform(0, 1, <<0, 1, 2, 3, 0, 1, 2, 3, 0, 1, 2, 3>>)

\* The periodic series whose elements at the Python indexes from_index ..
\* to_index - 1 have value 0 and data_loss 1.
WithGap(from_index, to_index) ==
    [Periodic EXCEPT !.items =
        [i \in 1..Len(@) |->
            IF from_index <= i - 1 /\ i - 1 < to_index
            THEN DataTimePoint(@[i].t, 0, Some(FullLoss))
            ELSE @[i]]]

\* The series with one run of at most MaxGap lost elements.
GapSeries ==
    { WithGap(a, a + k) : a \in 0..(Len(Periodic.items) - MaxGap), k \in 1..MaxGap }

\* str(k) for a periodicity index k, as json.dumps writes the keys of a
\* dict: a key that no int is equal to, kept here as -(k + 1).
str(k) == -(k + 1)

\* json.dumps(self.data) read back by json.loads: the keys of averages are
\* strings, every value is as it was.
json_dumps(data) ==
    IF ~data.averages.set THEN data
    ELSE [data EXCEPT !.averages =
            Some([s \in {str(k) : k \in DOMAIN data.averages.v} |->
                     data.averages.v[CHOOSE k \in DOMAIN data.averages.v : str(k) = s]])]

\* ParametricModel.__init__ with a path: a new instance holding the data of
\* path/data.json, fitted; no other attribute is set.
ParametricModel_load(cls, files, path) ==
    IF cls = "PeriodicAverageAnomalyDetector" THEN Return(NewModel(cls))
    ELSE IF path \notin DOMAIN files THEN Raise(NewModel(cls), "FileNotFoundError")
    ELSE Return([NewModel(cls) EXCEPT !.fitted = TRUE, !.data = files[path]])

InitScenario ==
    /\ NoSerie
    /\ \E cls \in ModelClasses \cup {"PeriodicAverageAnomalyDetector"} :
           model = NewModel(cls)
    /\ disk = <<>>
    /\ input = NoSeries
    /\ heap = Store(NoSeries)
    /\ result = [op |-> "init", err |-> "none", ret |-> None, kw |-> Kwargs]

\* model.fit(Periodic, periodicity=4, offset_method=...) with the default
\* data_loss_threshold
FitScenario ==
    \E kw \in { [Kwargs EXCEPT !.periodicity = 4, !.offset_method = o,
                               !.data_loss_threshold = HalfLoss] :
                   o \in {"average", "extremes"} } :
        \E r \in {ParametricModel_fit(model, Periodic, kw)} :
        /\ model' = r.s
        /\ input' = Periodic
        /\ heap' = Store(Periodic)
        /\ result' = [op |-> "fit", err |-> r.err, ret |-> None, kw |-> kw]
        /\ UNCHANGED disk

\* model.apply(series, **kw) on a series with a gap
ApplyScenario ==
    \E series \in GapSeries, kw \in ApplyArgs(model.cls) :
        \E r \in {ParametricModel_call(model, "apply", Store(series).objs,
                                       Store(series).arg, series, kw)} :
            /\ model' = r.m
            /\ input' = series
            /\ heap' = [objs |-> r.objs, arg |-> r.arg]
            /\ result' = [op |-> "apply", err |-> r.err, ret |-> r.ret, kw |-> kw]
            /\ UNCHANGED disk

\* model.save(path): the model directory now holds data.json
SaveScenario ==
    \E r \in {ParametricModel_save(model, DOMAIN disk)} :
        /\ disk' = IF r.err = "none"
                   THEN (model.data.id :> json_dumps(model.data)) @@ disk
                   ELSE disk
        /\ input' = NoSeries
        /\ heap' = Store(NoSeries)
        /\ result' = [op |-> "save", err |-> r.err,
                      ret |-> IF r.err = "none" THEN Path ELSE None, kw |-> Kwargs]
        /\ UNCHANGED model

\* model = ModelClass(path) for the directory save writes to; the instance
\* in use is replaced when the constructor returns.
LoadScenario ==
    \E r \in {ParametricModel_load(model.cls, disk, model.data.id)} :
        /\ model' = IF r.err = "none" THEN r.s ELSE model
        /\ input' = NoSeries
        /\ heap' = Store(NoSeries)
        /\ result' = [op |-> "load", err |-> r.err, ret |-> None, kw |-> Kwargs]
        /\ UNCHANGED disk

NextScenario ==
    \/ FitScenario /\ UNCHANGED <<serie, outcome>>
    \/ ApplyScenario /\ UNCHANGED <<serie, outcome>>
    \/ SaveScenario /\ UNCHANGED <<serie, outcome>>
    \/ LoadScenario /\ UNCHANGED <<serie, outcome>>

SpecScenario == InitScenario /\ [][NextScenario]_vars

\* The model is a reconstructor fitted on the periodic series with the
\* default options.
FittedOnPeriodic ==
    /\ Reconstructor /\ model.fitted
    /\ model.data.periodicity = Some(4)
    /\ model.data.averages = Some([p \in 0..3 |-> Int2Rat(p)])
    /\ model.offset_method = Some("average")

\* C11: with a PeriodicAverageReconstructor fitted with periodicity 4 and
\* default options on the series data[i] = i mod 4, applying it with default
\* options to that series where the elements at indices 4, 5 and 6 have
\* value 0 and data_loss 1 sets those three elements to 0, 1 and 2 and marks
\* each of them data_reconstructed = 1.
C11_Reconstruction ==
    /\ FittedOnPeriodic
    /\ result.op = "apply" /\ result.kw = Kwargs
    /\ input = WithGap(4, 7)
    => /\ result.err = "none"
       /\ \A i \in 4..6 :
             /\ heap.objs[Worked[i + 1]].data = Int2Rat(i - 4)
             /\ heap.objs[Worked[i + 1]].data_reconstructed = Some(1)

\* Two calls left the same series behind, raised the same error and returned
\* the same value.
SameResult(a, b) ==
    a.err = b.err /\ a.ret = b.ret /\ a.objs = b.objs /\ a.arg = b.arg

\* C12: a fitted model that is saved and then loaded from the saved
\* directory is fitted and gives, for every input series, the same apply
\* result as the instance that was saved, every parameter that apply reads
\* having survived the round trip.
C12_SaveLoad ==
    [][Calls({"save"}) /\ result'.err = "none" =>
          \E loaded \in {ParametricModel_load(model.cls, disk', model.data.id)} :
              /\ loaded.err = "none"
              /\ loaded.s.fitted
              /\ \A series \in GapSeries, kw \in ApplyArgs(model.cls) :
                    SameResult(
                        ParametricModel_call(loaded.s, "apply", Store(series).objs,
                                             Store(series).arg, series, kw),
                        ParametricModel_call(model, "apply", Store(series).objs,
                                             Store(series).arg, series, kw))]_vars

-----------------------------------------------------------------------------
(* Two concurrent apply calls on one fitted PeriodicAverageForecaster       *)
(* (specification SpecConcurrent). Here input, heap and result hold one     *)
(* value per call: the series passed, the forecast_timeseries the call      *)
(* works on, and how far its loop has come.                                 *)

Callers == {1, 2}

\* The forecaster both calls use: fitted with window 2 and periodicity 2.
Shared ==
    ParametricModel_fit(NewModel("PeriodicAverageForecaster"), Uniform(0, 1, <<1, 3, 1, 3>>),
                        [Kwargs EXCEPT !.window = 2, !.periodicity = 2]).s

InitConcurrent ==
    /\ NoSerie
    /\ model = Shared
    /\ disk = {}
    /\ input = [c \in Callers |-> NoSeries]
    /\ heap = [c \in Callers |-> Store(NoSeries)]
    /\ result = [c \in Callers |-> [op |-> "idle", err |-> "none", n |-> 0, k |-> 0,
                                    first_call |-> TRUE]]

\* Forecaster._apply(series, n) up to its loop: the checks and the duplicate.
StartApply ==
    \E c \in Callers, n \in 2..(MaxN + 1),
       series \in {Uniform(0, 1, <<1, 3, 1, 3>>), Uniform(0, 1, <<2, 4, 2, 4>>),
                   Uniform(0, 1, <<1, 3, 1>>), Uniform(0, 1, <<1>>)} :
        \E r \in {Forecaster_apply(model, Store(series).objs, Store(series).arg,
                                   series, 0, FALSE)} :
            /\ result[c].op = "idle"
            /\ input' = [input EXCEPT ![c] = series]
            /\ heap' = [heap EXCEPT ![c] =
                          IF r.err = "none" THEN [objs |-> r.objs, arg |-> r.ret.ids] ELSE @]
            /\ result' = [result EXCEPT ![c] = [op |-> "apply", err |-> r.err, n |-> n,
                                                k |-> n, first_call |-> TRUE]]
            /\ UNCHANGED <<model, disk>>

\* One pass of the "for _ in range(n)" loop of a call: self._forecast, which
\* reads and writes the model, and the append to the call's own series.
StepApply ==
    \E c \in Callers :
        /\ result[c].op = "apply" /\ result[c].err = "none" /\ result[c].k > 0
        /\ \E f \in {PeriodicAverageForecaster_forecast(
                         model, heap[c].objs, heap[c].arg, input[c].resolution,
                         result[c].first_call)} :
              /\ model' = f.m
              /\ heap' = [heap EXCEPT ![c] =
                            IF f.err # "none" THEN @
                            ELSE [objs |-> Append(@.objs, f.item),
                                  arg  |-> Append(@.arg, Len(@.objs) + 1)]]
              /\ result' = [result EXCEPT ![c].err = f.err,
                                          ![c].k = IF f.err # "none" THEN @ ELSE @ - 1,
                                          ![c].first_call = IF f.err # "none" THEN @ ELSE FALSE]
        /\ UNCHANGED <<input, disk>>

NextConcurrent ==
    \/ StartApply /\ UNCHANGED <<serie, outcome>>
    \/ StepApply /\ UNCHANGED <<serie, outcome>>

SpecConcurrent == InitConcurrent /\ [][NextConcurrent]_vars

\* C13: when two apply calls with n >= 2 run concurrently on the same fitted
\* PeriodicAverageForecaster with different input series, then under every
\* interleaving of their steps each call ends with the same forecasts as
\* when it runs alone.
C13_Isolation ==
    \A c \in Callers :
        /\ \A d \in Callers : result[d].op = "apply"
        /\ \A d \in Callers \ {c} : input[d] # input[c]
        /\ result[c].k = 0 \/ result[c].err # "none"
        =>
            \E alone \in {Forecaster_apply(model, Store(input[c]).objs, Store(input[c]).arg,
                                           input[c], result[c].n, FALSE)} :
                /\ result[c].err = alone.err
                /\ alone.err = "none" =>
                      /\ heap[c].objs = alone.objs
                      /\ heap[c].arg = alone.ret.ids

-----------------------------------------------------------------------------
(* The anomaly detector in the periodic scenario (specification SpecScenario) *)

Detector == model.cls = "PeriodicAverageAnomalyDetector"

\* C14: apply of a fitted anomaly detector returns one annotated element for
\* every element of the input, in the same order, whose anomaly flag is 1
\* exactly where |actual - predicted| is strictly above the fitted threshold
\* and 0 elsewhere.
C14_Annotated ==
    Detector /\ result.op = "apply" /\ result.err = "none" =>
        /\ Len(result.ret.ids) = Len(input.items)
        /\ \A i \in 1..Len(input.items) :
              \E x \in {heap.objs[result.ret.ids[i]]},
                 AE \in {Minus(input.items[i].data,
                               predicted(model.forecaster.v, input.items, Store(input).arg,
                                         input.resolution, i - 1).v)} :
                  /\ x.t = input.items[i].t
                  /\ x.data = input.items[i].data
                  /\ x.anomaly = anomaly(AE, model.AE_threshold.v)

-----------------------------------------------------------------------------
(* Cross validation (specification SpecValidate). Here result holds the     *)
(* validation range of every round that was evaluated.                      *)

MaxItems == 12

MaxRounds == 4

RECURSIVE cross_validate_rounds(_, _, _, _, _)
\* A round of cross_validate after its evaluate call e: the evaluation is
\* appended and the next round starts, or the error leaves the loop.
cross_validate_evaluated(e, series, kw, i, evaluations, fold) ==
    IF e.err # "none" THEN [m |-> e.m, err |-> e.err, evaluations |-> evaluations]
    ELSE cross_validate_rounds(e.m, series, kw, i + 1, Append(evaluations, fold))

\* A round of cross_validate after its fit call f: self.evaluate(data,
\* from_t=from_t, to_t=to_t), unless the fit raised.
cross_validate_fitted(f, series, kw, i, evaluations, fold) ==
    IF f.err # "none" THEN [m |-> f.s, err |-> f.err, evaluations |-> evaluations]
    ELSE cross_validate_evaluated(
             ParametricModel_call(f.s, "evaluate", series.items, Store(series).arg, series,
                                  [Kwargs EXCEPT !.from_t = Some(fold[1]),
                                                 !.to_t   = Some(fold[2])]),
             series, kw, i, evaluations, fold)

\* The "for i in range(rounds)" loop of cross_validate from round i on and
\* the regrouping after it (statistics.stdev needs the scores of two
\* rounds): the model, the error raised and the from_t and to_t of every
\* round evaluated.
cross_validate_rounds(m, series, kw, i, evaluations) ==
    LET round_items == Len(series.items) \div kw.rounds
        from_t == series.items[round_items * i + 1].t
        to_t   == series.items[round_items * i + round_items + 1].t
    IN  IF i = kw.rounds
        THEN [m |-> m, evaluations |-> evaluations,
              err |-> IF Len(evaluations) < 2 THEN "StatisticsError" ELSE "none"]
        ELSE IF round_items * i + round_items >= Len(series.items)
        THEN [m |-> m, err |-> "IndexError", evaluations |-> evaluations]
        ELSE cross_validate_fitted(
                 ParametricModel_fit(m, series,
                     [kw EXCEPT !.from_t = Some(to_t),
                                !.to_t   = IF i = 0 THEN Unset ELSE Some(from_t)]),
                 series, kw, i, evaluations, <<from_t, to_t>>)

\* ParametricModel.cross_validate(data, rounds=..., fit_...)
ParametricModel_cross_validate(m, series, kw) ==
    IF "evaluate" \notin Implements(m.cls)
    THEN [m |-> m, err |-> "NotImplementedError", evaluations |-> <<>>]
    ELSE cross_validate_rounds(m, series, kw, 0, <<>>)

\* The series cross_validate is called on: n points of period two.
Folded(n) == Uniform(0, 1, [i \in 1..n |-> (i - 1) % 2])

InitValidate ==
    /\ NoSerie
    /\ \E cls \in ModelClasses : model = NewModel(cls)
    /\ disk = {}
    /\ input = NoSeries
    /\ heap = Store(NoSeries)
    /\ result = [op |-> "init", err |-> "none", kw |-> Kwargs, evaluations |-> <<>>]

\* model.cross_validate(series, rounds=r, **fit kwargs)
CrossValidate ==
    \E n \in (MaxItems - 3)..MaxItems, rounds \in 2..MaxRounds, kw \in FitArgs(model.cls) :
        \E r \in {ParametricModel_cross_validate(model, Folded(n),
                                                 [kw EXCEPT !.rounds = rounds])} :
            /\ model' = r.m
            /\ input' = Folded(n)
            /\ heap' = Store(Folded(n))
            /\ result' = [op |-> "cross_validate", err |-> r.err,
                          kw |-> [kw EXCEPT !.rounds = rounds],
                          evaluations |-> r.evaluations]
            /\ UNCHANGED disk

NextValidate == CrossValidate /\ UNCHANGED <<serie, outcome>>

SpecValidate == InitValidate /\ [][NextValidate]_vars

\* C16: cross_validate on n elements with r rounds (2 <= r <= n) never
\* reads an index outside the series, also when n is a multiple of r, and
\* when it returns its scores it has run exactly r rounds, round i fitting
\* and then evaluating on the elements at the indices
\* [i * floor(n / r), (i + 1) * floor(n / r)).
C16_Rounds ==
    /\ result.op = "cross_validate"
    /\ 2 <= result.kw.rounds
    /\ result.kw.rounds <= Len(input.items)
    => /\ result.err # "IndexError"
       /\ result.err = "none" =>
             /\ Len(result.evaluations) = result.kw.rounds
             /\ \A i \in 0..(result.kw.rounds - 1) :
                   result.evaluations[i + 1] =
                       <<input.items[1].t
                            + i * (Len(input.items) \div result.kw.rounds) * input.resolution,
                         input.items[1].t
                            + (i + 1) * (Len(input.items) \div result.kw.rounds)
                                * input.resolution>>

\* C17: whenever the first round of an evaluation has fewer than 2 evaluable
\* anchors (0 or 1), evaluate raises InsufficientDataError and returns no
\* score.
C17_Insufficient ==
    [][/\ Calls({"evaluate"})
       /\ model.fitted
       /\ data_keys(input').set
       /\ \E r \in {IF Forecaster
                    THEN Forecaster_samples(model, input'.items, Store(input').arg, input',
                                            result'.kw, 1, 0)
                    ELSE Reconstructor_samples(model, input'.items, Store(input').arg, input',
                                               result'.kw, 1, 0)} :
              r.err = "none" /\ r.processed < 2
       => result'.err = "InsufficientDataError" /\ result'.ret = None
      ]_vars

-----------------------------------------------------------------------------
(* The periodicity index with DST (specification SpecPhase). Here input is  *)
(* the arguments of the last call and result what it gave; a time point     *)
(* carries the DST offset, in seconds, that its timezone has at t.          *)

MaxHour == 6

\* get_periodicity_index(time_point, resolution, periodicity, dst_affected)
\* for a resolution in seconds; dt.dst() is within a day.
periodicity_index(time_point, resolution, periodicity, dst_affected) ==
    IF ~dst_affected
    THEN [err |-> "none", index |-> get_periodicity_index(time_point, resolution, periodicity)]
    ELSE IF time_point.dst = 0
    THEN [err |-> "none", index |-> int_div(time_point.t, resolution) % periodicity]
    ELSE IF resolution > 3600 THEN [err |-> "Exception", index |-> -1]
    ELSE [err |-> "none",
          index |-> int_div(time_point.t + time_point.dst, resolution) % periodicity]

InitPhase ==
    /\ NoSerie
    /\ model = "-"
    /\ disk = "-"
    /\ heap = "-"
    /\ input = [time_point |-> [t |-> 0, dst |-> 0], resolution |-> 3600, periodicity |-> 1,
                dst_affected |-> FALSE]
    /\ result = [op |-> "init", err |-> "none", index |-> -1]

\* get_periodicity_index(TimePoint(t, tz), resolution, periodicity, dst_affected)
GetIndex ==
    \E h \in (-MaxHour)..MaxHour, dst \in {0, 3600}, resolution \in {600, 3600, 86400},
       periodicity \in {1, 2, 24}, dst_affected \in BOOLEAN :
        \E r \in {periodicity_index([t |-> h * 3600, dst |-> dst], resolution, periodicity,
                                    dst_affected)} :
            /\ input' = [time_point |-> [t |-> h * 3600, dst |-> dst],
                         resolution |-> resolution, periodicity |-> periodicity,
                         dst_affected |-> dst_affected]
            /\ result' = [op |-> "get_periodicity_index", err |-> r.err, index |-> r.index]
            /\ UNCHANGED <<model, disk, heap>>

NextPhase == GetIndex /\ UNCHANGED <<serie, outcome>>

SpecPhase == InitPhase /\ [][NextPhase]_vars

\* C18: every periodicity index computation with dst_affected = true on a
\* resolution above 3600 seconds fails with an error, whether or not DST is
\* in effect at the time point, and returns no index.
C18_Refused ==
    /\ result.op = "get_periodicity_index"
    /\ input.dst_affected
    /\ input.resolution > 3600
    => result.err # "none"

\* C23: for every timestamp t, negative ones included, every resolution
\* R > 0 and every periodicity P >= 1, the phase index computed without DST
\* handling is floor(t / R) mod P and lies in [0, P).
C23_Floor ==
    result.op = "get_periodicity_index" /\ ~input.dst_affected =>
        /\ result.err = "none"
        /\ result.index = (input.time_point.t \div input.resolution) % input.periodicity
        /\ 0 <= result.index /\ result.index < input.periodicity

-----------------------------------------------------------------------------
(* Slots and their coverage (specification SpecSlot). Here input is what    *)
(* the last call was given, result what it gave, and heap the store of the  *)
(* slots that the last apply worked on.                                     *)

MaxSlots == 3

\* A Point or TimePoint with its coordinates, or the int 1 (no coordinates).
APoint(type, coordinates, tz) == [type |-> type, coordinates |-> coordinates, tz |-> tz]

\* Slot.__init__, after TimeSlot.__init__ and DataSlot.__init__ for the
\* classes that have them; data and coverage are Unset where not given.
Slot_init(cls, start, end, data, coverage) ==
    LET DataSlot == "DataSlot" \in Bases(cls)
        TimeSlot == "TimeSlot" \in Bases(cls)
        POINT_TYPE == IF TimeSlot THEN "TimePoint" ELSE "Point"
        slot == [type |-> cls, start |-> start, end |-> end,
                 data |-> IF DataSlot /\ data.set THEN data.v ELSE Int2Rat(0),
                 coverage |-> IF DataSlot THEN coverage ELSE Unset,
                 data_reconstructed |-> Unset]
    IN  IF DataSlot /\ ~data.set THEN Raise(slot, "Exception")
        ELSE IF /\ TimeSlot
                /\ "TimePoint" \in Bases(start.type)
                /\ "TimePoint" \in Bases(end.type)
                /\ start.tz # end.tz
        THEN Raise(slot, "ValueError")
        ELSE IF POINT_TYPE \notin Bases(start.type) THEN Raise(slot, "TypeError")
        ELSE IF POINT_TYPE \notin Bases(end.type) THEN Raise(slot, "TypeError")
        ELSE IF DOMAIN start.coordinates # DOMAIN end.coordinates
        THEN Raise(slot, "ValueError")
        ELSE IF start.coordinates = end.coordinates THEN Raise(slot, "ValueError")
        ELSE Return(slot)

\* Variant: the property gives the coverage back.
DataSlot_data_loss_same(slot) ==
    IF slot.coverage.set THEN Some(slot.coverage.v) ELSE Unset

\* DataSlot.data_loss: 1 - self._coverage, or None without the attribute.
DataSlot_data_loss(slot) ==
    IF slot.coverage.set THEN Some(FullLoss - slot.coverage.v) ELSE Unset

RECURSIVE Slots_items(_, _, _, _, _, _, _)
\* An item below the threshold in the loop of Reconstructor._apply, r being
\* the outcome of reconstructing the gap it closes, if any.
Slots_item(r, m, ids, resolution, kw, i) ==
    IF r.err # "none" THEN r
    ELSE Slots_items(
             m, [r.objs EXCEPT ![At(ids, i)].data_reconstructed = Some(0),
                               ![At(ids, i)].coverage =
                                   IF kw.remove_data_loss THEN Some(FullLoss) ELSE @],
             ids, resolution, kw, i + 1, -1)

\* The "for i, item in enumerate(timeseries)" loop of Reconstructor._apply
\* on slots from index i on, and the reconstruction of the gap left open
\* at the end; gap_started is -1 for None, and a data_loss of None cannot
\* be compared with the threshold.
Slots_items(m, objs, ids, resolution, kw, i, gap_started) ==
    IF i >= Len(ids)
    THEN (IF gap_started # -1
          THEN reconstruct(m, objs, ids, resolution, gap_started, i)
          ELSE [objs |-> objs, err |-> "none"])
    ELSE IF ~DataSlot_data_loss(objs[At(ids, i)]).set
    THEN [objs |-> objs, err |-> "TypeError"]
    ELSE IF DataSlot_data_loss(objs[At(ids, i)]).v >= kw.data_loss_threshold
    THEN Slots_items(m, [objs EXCEPT ![At(ids, i)].coverage =
                                         IF kw.remove_data_loss THEN Some(FullLoss) ELSE @],
                     ids, resolution, kw, i + 1,
                     IF gap_started = -1 THEN i ELSE gap_started)
    ELSE Slots_item(IF gap_started # -1
                    THEN reconstruct(m, objs, ids, resolution, gap_started, i)
                    ELSE [objs |-> objs, err |-> "none"],
                    m, ids, resolution, kw, i)

\* Reconstructor._apply of models.py on a univariate series of data time
\* slots; the t of a slot is that of its start.
Slots_apply(m, objs, arg, resolution, kw) ==
    LET timeseries ==
            IF kw.inplace THEN [objs |-> objs, ids |-> arg] ELSE duplicate(objs, arg)
    IN  Reconstructor_applied(
            Slots_items(m, timeseries.objs, timeseries.ids, resolution, kw, 0, -1),
            m, objs, arg, timeseries.ids, kw.inplace)

\* The slots [i - 1, i) with the given coverages, as DataTimeSlot(start=...,
\* end=..., data=..., coverage=...) constructs them.
SlotSeries_of(coverages) ==
    [i \in 1..Len(coverages) |->
        [t |-> i - 1] @@
        Slot_init("DataTimeSlot", APoint("TimePoint", [t |-> i - 1], UTC),
                  APoint("TimePoint", [t |-> i], UTC), Some(Int2Rat(i)), coverages[i]).s]

InitSlot ==
    /\ NoSerie
    /\ model = ParametricModel_fit(NewModel("PeriodicAverageReconstructor"),
                                   Uniform(0, 1, <<1, 3, 1, 3>>),
                                   [Kwargs EXCEPT !.periodicity = 2,
                                                  !.offset_method = "average",
                                                  !.data_loss_threshold = HalfLoss]).s
    /\ disk = {}
    /\ input = <<>>
    /\ heap = [objs |-> <<>>, arg |-> <<>>]
    /\ result = [op |-> "init", err |-> "none", ret |-> None]

\* cls(start=..., end=...) or cls(start=..., end=..., data=..., coverage=...)
NewSlot ==
    \E cls \in SlotTypes,
       start, end \in { APoint("Point", [x |-> 1], "-"), APoint("Point", [x |-> 2], "-"),
                        APoint("Point", [x |-> 2, y |-> 4], "-"),
                        APoint("TimePoint", [t |-> 1], UTC),
                        APoint("TimePoint", [t |-> 2], UTC),
                        APoint("TimePoint", [t |-> 2], "Europe/Rome"),
                        APoint("int", <<>>, "-") },
       coverage \in {Unset, Some(HalfLoss), Some(FullLoss + HalfLoss)} :
        \E r \in {Slot_init(cls, start, end, Some(Int2Rat(1)), coverage)} :
            /\ input' = <<[cls |-> cls, start |-> start, end |-> end, coverage |-> coverage]>>
            /\ heap' = [objs |-> IF r.err = "none" THEN <<r.s>> ELSE <<>>, arg |-> <<>>]
            /\ result' = [op |-> "Slot", err |-> r.err, ret |-> None]
            /\ UNCHANGED <<model, disk>>

\* reconstructor.apply(series, remove_data_loss=..., inplace=...) on a series
\* of data time slots
ApplySlots ==
    \E coverages \in UNION { [1..n -> {Unset, Some(0), Some(HalfLoss)}] : n \in 1..MaxSlots },
       kw \in { [Kwargs EXCEPT !.remove_data_loss = r, !.inplace = b] :
                  r \in BOOLEAN, b \in BOOLEAN } :
        \E r \in {Slots_apply(model, SlotSeries_of(coverages),
                              [i \in 1..Len(coverages) |-> i], 1, kw)} :
            /\ input' = [i \in 1..Len(coverages) |->
                            [cls |-> "DataTimeSlot", coverage |-> coverages[i]]]
            /\ heap' = [objs |-> r.objs, arg |-> r.arg]
            /\ result' = [op |-> "apply", err |-> r.err, ret |-> r.ret]
            /\ UNCHANGED <<model, disk>>

NextSlot ==
    \/ NewSlot /\ UNCHANGED <<serie, outcome>>
    \/ ApplySlots /\ UNCHANGED <<serie, outcome>>

SpecSlot == InitSlot /\ [][NextSlot]_vars

\* start is before end on every coordinate.
Before(start, end) ==
    \A k \in DOMAIN start.coordinates : start.coordinates[k] < end.coordinates[k]

\* C19: every Slot that is successfully constructed has its start strictly
\* before its end and endpoints with the same coordinates; constructing a
\* slot from points of its point class whose start is equal to or after its
\* end, or whose dimensions differ, raises ValueError.
C19_Ordered ==
    /\ result.op = "Slot"
    /\ \A p \in {input[1].start, input[1].end} :
          (IF "TimeSlot" \in Bases(input[1].cls) THEN "TimePoint" ELSE "Point")
              \in Bases(p.type)
    => /\ result.err = "none" =>
             /\ DOMAIN input[1].start.coordinates = DOMAIN input[1].end.coordinates
             /\ Before(heap.objs[1].start, heap.objs[1].end)
       /\ \/ DOMAIN input[1].start.coordinates # DOMAIN input[1].end.coordinates
          \/ ~Before(input[1].start, input[1].end)
          => result.err = "ValueError"

\* The data_loss of every slot in the store is absent exactly when its
\* coverage is, and is 1 - coverage otherwise.
Derived ==
    \A i \in 1..Len(heap.objs) :
        /\ DataSlot_data_loss(heap.objs[i]).set = heap.objs[i].coverage.set
        /\ heap.objs[i].coverage.set =>
              DataSlot_data_loss(heap.objs[i]).v = FullLoss - heap.objs[i].coverage.v

InUnit(coverage) == coverage.set => 0 <= coverage.v /\ coverage.v <= FullLoss

-----------------------------------------------------------------------------
(* Resampling (specification SpecResample). Here input is the point series  *)
(* and the unit a resample call was given, and result the slots it gave.    *)
(* Instants are counted in half seconds where midpoints are taken.          *)

MaxPoints == 3

\* The validity interval of point i, in half seconds: from the midpoint to
\* the previous point up to the midpoint to the next one; the first and the
\* last point extend by half the sampling interval.
validity(items, interval, i) ==
    [lo |-> IF i = 1 THEN 2 * items[i].t - interval ELSE items[i - 1].t + items[i].t,
     hi |-> IF i = Len(items) THEN 2 * items[i].t + interval
            ELSE items[i].t + items[i + 1].t]

\* The length, in half seconds, of the part of point i's validity interval
\* that lies in the slot [L, L + unit).
overlap(items, interval, i, L, unit) ==
    LET v  == validity(items, interval, i)
        lo == IF v.lo > 2 * L THEN v.lo ELSE 2 * L
        hi == IF v.hi < 2 * (L + unit) THEN v.hi ELSE 2 * (L + unit)
    IN  IF hi > lo THEN hi - lo ELSE 0

RECURSIVE weighted(_, _, _, _, _)
\* Over the points from i on: the sum of value * overlap, and the sum of
\* the overlaps, with the slot [L, L + unit).
weighted(items, interval, i, L, unit) ==
    IF i > Len(items) THEN [value |-> Int2Rat(0), length |-> 0]
    ELSE LET rest == weighted(items, interval, i + 1, L, unit)
             o    == overlap(items, interval, i, L, unit)
         IN  [value  |-> Plus(rest.value, Mul(items[i].data, Int2Rat(o))),
              length |-> rest.length + o]

\* The slot [L, L + unit) of the resampled series: its coverage is the
\* covered length over the unit, clipped to 1, and its data the average of
\* the values weighted by overlap length (zero when nothing is covered).
resampled_slot(w, L, unit) ==
    [start    |-> L,
     end      |-> L + unit,
     data     |-> IF w.length = 0 THEN Int2Rat(0) ELSE Over(w.value, w.length),
     coverage |-> IF w.length >= 2 * unit THEN Int2Rat(1) ELSE Rat(w.length, 2 * unit)]

\* resample(S, unit): the slots of span unit from the floor-aligned start
\* on, one for every slot that starts before the last point.
resample(series, unit) ==
    IF series.items = <<>> THEN Raise(<<>>, "EmptySeriesError")
    ELSE LET items == series.items
             first == (items[1].t \div unit) * unit
             count == (items[Len(items)].t - first + unit - 1) \div unit
         IN  Return([k \in 1..count |->
                        resampled_slot(weighted(items, series.resolution, 1,
                                                first + (k - 1) * unit, unit),
                                       first + (k - 1) * unit, unit)])

InitResample ==
    /\ NoSerie
    /\ model = "-"
    /\ disk = "-"
    /\ heap = "-"
    /\ input = [series |-> NoSeries, unit |-> 1]
    /\ result = [op |-> "init", err |-> "none", ret |-> <<>>]

\* series.resample(unit) on a uniform series: of resolution 60 from 60 on,
\* or of resolution 1 or 2 from 0, 1 or 2 on.
Resample ==
    \E series \in { Uniform(60, 60, <<1, 2, 3, 4>>), Uniform(0, 1, <<>>) }
                  \cup { Uniform(t0, R, values) :
                           t0 \in 0..2, R \in 1..2,
                           values \in UNION { [1..n -> 1..2] : n \in 2..MaxPoints } },
       k \in 1..2 :
        \E unit \in { k * series.resolution } :
            \E r \in {resample(series, unit)} :
                /\ input' = [series |-> series, unit |-> unit]
                /\ result' = [op |-> "resample", err |-> r.err, ret |-> r.s]
                /\ UNCHANGED <<model, disk, heap>>

NextResample == Resample /\ UNCHANGED <<serie, outcome>>

SpecResample == InitResample /\ [][NextResample]_vars

\* The point of the input series at time t, if any.
PointAt(t) == { x \in { input.series.items[i] : i \in 1..Len(input.series.items) } : x.t = t }

\* C21: resampling a uniform point series at its own resolution yields
\* slots whose value is the value of the original point at the slot's
\* start and whose coverage is 1; for (60,1), (120,2), (180,3), (240,4) at
\* 60 s the result is exactly [60,120) = 1, [120,180) = 2, [180,240) = 3.
C21_Identity ==
    /\ result.op = "resample"
    /\ input.series.items # <<>>
    /\ input.unit = input.series.resolution
    => /\ result.err = "none"
       /\ \A k \in 1..Len(result.ret) :
             /\ result.ret[k].coverage = Int2Rat(1)
             /\ \E x \in PointAt(result.ret[k].start) : result.ret[k].data = x.data
       /\ input.series = Uniform(60, 60, <<1, 2, 3, 4>>) =>
             result.ret = [k \in 1..3 |->
                             [start |-> 60 * k, end |-> 60 * k + 60,
                              data |-> Int2Rat(k), coverage |-> Int2Rat(1)]]

-----------------------------------------------------------------------------
(* The parameters of the periodic-average models (specification SpecModel) *)

\* The elements of the series given to the last fit that are in range, have
\* a data_loss below the threshold and are of phase p.
Contributing(threshold, p) ==
    SelectSeq(input.items,
              LAMBDA x : /\ item_is_in_range(x, result.kw.from_t, result.kw.to_t)
                         /\ x.data_loss.set => x.data_loss.v < threshold
                         /\ (x.t \div input.resolution) % result.kw.periodicity = p)

\* C22: after fit of a periodic-average reconstructor or forecaster, for
\* each phase p the stored averages[p] is the arithmetic mean of the data of
\* exactly the in-range input elements of phase p whose data_loss is below
\* the data-loss threshold (0.5 when none is given); elements with a
\* data_loss at or above it contribute to no average, and a phase without
\* contributing element has no entry.
C22_Averages ==
    result.op = "fit" /\ result.err = "none" /\ model.cls \in ModelClasses =>
        /\ model.data.averages.set
        /\ DOMAIN model.data.averages.v \subseteq 0..(result.kw.periodicity - 1)
        /\ \A p \in 0..(result.kw.periodicity - 1) :
              \E mine \in {Contributing(IF Forecaster THEN HalfLoss
                                        ELSE result.kw.data_loss_threshold, p)} :
                  IF mine = <<>> THEN p \notin DOMAIN model.data.averages.v
                  ELSE /\ p \in DOMAIN model.data.averages.v
                       /\ model.data.averages.v[p] = Over(Sum(mine), Len(mine))

\* The elements a forecaster call has added after those of the input.
Forecast ==
    IF result.op = "predict" THEN result.ret.ids
    ELSE SubSeq(Worked, Len(input.items) + 1, Len(Worked))

\* Every phase of the fitted model has an average.
AllPhases == DOMAIN model.data.averages.v = 0..(model.data.periodicity.v - 1)

\* The mean of (actual value - phase average) over the last W elements of
\* the input series.
MeanResidual(W) ==
    Over(Diffs(input.items, [i \in 1..Len(input.items) |-> i], [j \in 1..W |-> -j],
               input.resolution, model.data.periodicity.v, model.data.averages.v), W)

\* C24: the offset added to every forecast is the sum of (actual value -
\* phase average) over the last W elements of the input series divided by
\* W, for every window W >= 1; it is computed once per predict or apply call
\* from input elements only, and all n forecast steps of the call use it.
C24_Offset ==
    /\ Forecaster /\ model.fitted /\ result.op \in {"apply", "predict"}
    /\ input.labels = 1
    /\ Len(input.items) >= model.data.window.v
    /\ AllPhases
    => /\ result.err = "none"
       /\ Len(Forecast) = result.kw.n
       /\ \A i \in 1..Len(Forecast) :
             heap.objs[Forecast[i]].data =
                 Plus(model.data.averages.v[
                          get_periodicity_index(heap.objs[Forecast[i]], input.resolution,
                                                model.data.periodicity.v)],
                      MeanResidual(model.data.window.v))

\* The elements at the Python indexes lo .. hi - 1 of the input are a
\* maximal run of elements in a gap.
Run(lo, hi) ==
    /\ \A i \in (lo + 1)..hi : Gap(i)
    /\ lo = 0 \/ ~Gap(lo)
    /\ hi = Len(input.items) \/ ~Gap(hi + 1)

\* The residual, value - phase average, of the input element at index j.
Residual(j) ==
    Minus(input.items[j + 1].data,
          model.data.averages.v[get_periodicity_index(input.items[j + 1], input.resolution,
                                                      model.data.periodicity.v)])

\* The phase average of the input element at index j.
Average(j) ==
    model.data.averages.v[get_periodicity_index(input.items[j + 1], input.resolution,
                                                model.data.periodicity.v)]

\* C25: with offset_method 'extremes', the offset used to reconstruct a gap
\* [i_lo, i_hi) is the average of the residuals at the element just before
\* the gap (index i_lo - 1) and at the element just after it (index i_hi);
\* when the gap starts at index 0 or ends at the last element of the
\* series, the offset is 0.
C25_Extremes ==
    /\ Applied /\ Reconstructor /\ model.offset_method = Some("extremes")
    /\ input.labels = 1 /\ input.items # <<>>
    /\ AllPhases
    => /\ result.err = "none"
       /\ \A lo \in 0..Len(input.items), hi \in 0..Len(input.items) :
             lo < hi /\ Run(lo, hi) =>
                 \A j \in lo..(hi - 1) :
                     heap.objs[Worked[j + 1]].data =
                         Plus(Average(j),
                              IF lo = 0 \/ hi = Len(input.items) THEN Int2Rat(0)
                              ELSE Over(Plus(Residual(lo - 1), Residual(hi)), 2))

\* The phase of the time t has no entry in the averages of the model.
Absent(t) ==
    get_periodicity_index([t |-> t], input.resolution, model.data.periodicity.v)
        \notin DOMAIN model.data.averages.v

\* The last call consulted the average of a phase that has none: for a
\* forecaster the phase of one of the last window elements of the input or
\* of a forecast step, for a reconstructor the phase of an element in a gap.
ConsultsAbsent ==
    /\ model.fitted /\ result.op \in {"apply", "predict"} /\ result.op \in Implements(model.cls)
    /\ input.labels = 1 /\ input.items # <<>>
    /\ IF Forecaster
       THEN /\ Len(input.items) >= model.data.window.v
            /\ \/ \E j \in 1..model.data.window.v :
                     Absent(input.items[Len(input.items) + 1 - j].t)
               \/ \E i \in 1..result.kw.n :
                     Absent(input.items[Len(input.items)].t + i * input.resolution)
       ELSE /\ Reconstructor /\ model.offset_method.v \in {"average", "extremes"}
            /\ \E i \in 1..Len(input.items) : Gap(i) /\ Absent(input.items[i].t)

\* C26: when reconstruction or forecasting consults the average of a phase
\* that received no element during fit, the phase is absent from the
\* averages map and the lookup yields 0: the operation completes.
C26_AbsentPhase == ConsultsAbsent => result.err = "none"

RECURSIVE reconstruct_calls(_, _, _, _, _)
\* The calls of self._reconstruct that the loop of Reconstructor._apply
\* makes from index i on, each as <<from_index, to_index>>, and the call
\* for a gap left open at the end; gap_started is -1 for None.
reconstruct_calls(objs, ids, kw, i, gap_started) ==
    IF i >= Len(ids)
    THEN (IF gap_started # -1 THEN << <<gap_started, i>> >> ELSE <<>>)
    ELSE IF objs[At(ids, i)].data_loss.set
            /\ objs[At(ids, i)].data_loss.v >= kw.data_loss_threshold
    THEN reconstruct_calls(objs, ids, kw, i + 1, IF gap_started = -1 THEN i ELSE gap_started)
    ELSE (IF gap_started # -1 THEN << <<gap_started, i>> >> ELSE <<>>)
         \o reconstruct_calls(objs, ids, kw, i + 1, -1)

\* The offset _reconstruct computes for the run [lo, hi) of the input.
RunOffset(lo, hi) ==
    IF model.offset_method.v = "average"
    THEN Over(Diffs(input.items, [i \in 1..Len(input.items) |-> i],
                    [j \in 1..(hi - lo) |-> lo + j - 1], input.resolution,
                    model.data.periodicity.v, model.data.averages.v), hi - lo)
    ELSE IF hi + 1 >= Len(input.items) THEN Int2Rat(0)
    ELSE Over(Plus(Residual((lo - 1) % Len(input.items)), Residual(hi + 1)), 2)

\* The calls of the reconstruction step are, one for one, the maximal runs
\* of the input.
C27_OncePerRun ==
    \E calls \in {reconstruct_calls(input.items, [i \in 1..Len(input.items) |-> i],
                                    result.kw, 0, -1)} :
        /\ \A k \in 1..Len(calls) : calls[k][1] < calls[k][2] /\ Run(calls[k][1], calls[k][2])
        /\ \A k \in 1..(Len(calls) - 1) : calls[k][2] < calls[k + 1][1]
        /\ \A lo \in 0..Len(input.items), hi \in 0..Len(input.items) :
              lo < hi /\ Run(lo, hi) => \E k \in 1..Len(calls) : calls[k] = <<lo, hi>>

\* C27: Reconstructor apply runs the reconstruction step exactly once for
\* each maximal run of consecutive elements whose data_loss is at or above
\* the threshold, with [from_index, to_index) exactly that run, also for a
\* run that reaches the end of the series; when apply returns, every
\* element of such a run is marked data_reconstructed = 1 and holds what
\* the step computes over that run, and every other element is marked
\* data_reconstructed = 0.
C27_Runs ==
    Applied /\ Reconstructor /\ result.err = "none" =>
        /\ C27_OncePerRun
        /\ \A lo \in 0..Len(input.items), hi \in 0..Len(input.items) :
              lo < hi /\ Run(lo, hi) =>
                  \A j \in lo..(hi - 1) :
                      /\ heap.objs[Worked[j + 1]].data_reconstructed = Some(1)
                      /\ heap.objs[Worked[j + 1]].data = Plus(Average(j), RunOffset(lo, hi))
        /\ \A i \in 1..Len(input.items) :
              ~Gap(i) => heap.objs[Worked[i]].data_reconstructed = Some(0)

\* A reconstructor has returned from an apply on a series with two runs,
\* the second of which reaches the end of the series.
C27_Witness ==
    /\ Applied /\ Reconstructor /\ result.err = "none"
    /\ Len(input.items) = 4
    /\ Run(1, 2) /\ Run(3, 4)
    /\ heap.objs[Worked[4]].data_reconstructed = Some(1)
    /\ heap.objs[Worked[3]].data_reconstructed = Some(0)

-----------------------------------------------------------------------------
(* The predictions of the anomaly detector (specification SpecScenario) *)

\* The one-step forecast that the detector's forecaster makes from the
\* elements of the input that end at index i - 1.
OneStep(i) ==
    PeriodicAverageForecaster_forecast(model.forecaster.v, input.items,
                                       [k \in 1..i |-> k], input.resolution, TRUE)

\* C28: in anomaly-detector fit and apply, for every index i > W the
\* prediction compared with element i is the one-step forecast made from
\* the elements that end at index i - 1: its offset is computed over the W
\* elements at indices i - W ... i - 1, and it uses neither element i nor a
\* later one. Here: the flag apply gives element i is the one that this
\* forecast gives it.
C28_OneStepAhead ==
    Detector /\ result.op = "apply" /\ result.err = "none" =>
        \A k \in 1..Len(result.ret.ids) :
            \E i \in {model.forecaster.v.data.window.v + k} :
                /\ OneStep(i).err = "none"
                /\ heap.objs[result.ret.ids[k]].anomaly =
                       anomaly(Minus(input.items[i + 1].data, OneStep(i).item.data),
                               model.AE_threshold.v)

-----------------------------------------------------------------------------
(* Rejected appends (specification Spec) *)

\* C29: an append that raises leaves the series exactly as it was, its
\* remembered reference values included (previous timestamp, data-shape
\* reference, slot span, timezone): after a rejected append, every element
\* that would have been accepted just before the rejected call is still
\* accepted.
C29_Atomic ==
    [][outcome'.op = "append" /\ outcome'.err # "none" =>
          /\ serie' = serie
          /\ \A item \in Offer(serie.cls) :
                append(serie, item).err = "none" => append(serie', item).err = "none"
      ]_vars

-----------------------------------------------------------------------------
(* Repeated fits of one model (specification SpecFit). Here input is the    *)
(* series and result the arguments and the outcome of the last fit call.    *)

\* The keyword arguments given to fit, with a periodicity of 0 among them.
RefitArgs(cls) ==
    FitArgs(cls) \cup { [kw EXCEPT !.periodicity = 0] : kw \in FitArgs(cls) }

InitFit ==
    /\ NoSerie
    /\ \E cls \in ModelClasses : model = NewModel(cls)
    /\ disk = "-"
    /\ heap = "-"
    /\ input = NoSeries
    /\ result = [op |-> "init", err |-> "none", kw |-> Kwargs]

\* model.fit(series, **kw) on the model as the earlier fits left it
Refit ==
    \E series \in FitSeries, kw \in RefitArgs(model.cls) :
        \E r \in {ParametricModel_fit(model, series, kw)} :
            /\ model' = r.s
            /\ input' = series
            /\ result' = [op |-> "fit", err |-> r.err, kw |-> kw]
            /\ UNCHANGED <<disk, heap>>

NextFit == Refit /\ UNCHANGED <<serie, outcome>>

SpecFit == InitFit /\ [][NextFit]_vars

\* The parameters a fit stores.
Parameters(m) ==
    [periodicity |-> m.data.periodicity, dst_affected |-> m.data.dst_affected,
     window |-> m.data.window, averages |-> m.data.averages]

\* The parameters that one fit call that returns stores in a model.
OneFit(cls) ==
    { Parameters(ParametricModel_fit(NewModel(cls), series, kw).s) :
        series \in { s \in FitSeries : s.items # <<>> /\ s.labels = 1 },
        kw \in { k \in RefitArgs(cls) :
                   k.offset_method \in {"-", "average", "extremes"} } }

\* C30: after any sequence of fit calls on one model instance, some of which
\* may raise, the stored parameters periodicity, dst_affected, window and
\* averages all come from one and the same fit call: a fit that raises
\* leaves the parameters stored by the last successful fit unchanged.
C30_OneFit ==
    /\ [](model.fitted => Parameters(model) \in OneFit(model.cls))
    /\ [][model.fitted /\ result'.op = "fit" /\ result'.err # "none" =>
              Parameters(model') = Parameters(model)]_vars

====
